---- MODULE Spec2Model ----
(***************************************************************************)
(* A model of src/src/converter.py (SinglePDFConverter): the page filter,  *)
(* the boundary detector and its validators, the subproblem segmenter, the *)
(* solution splitter, the image associator and the cross-page reconciler.  *)
(*                                                                         *)
(* Texts are TLA+ strings over ASCII; offsets are 0-based as in Python, so *)
(* the character at offset i of s is SubSeq(s, i + 1, i + 1).  Regular     *)
(* expressions are values built by the constructors below and matched by a *)
(* backtracking matcher with the priorities of Python's re module.         *)
(***************************************************************************)
EXTENDS Integers, Sequences, FiniteSets, TLC

VARIABLES
  pc,                        \* where convert_pdf stands
  doc,                       \* the document being converted: its pages
  page_num,                  \* the page the loop of convert_pdf is at
  start_page,                \* result of _find_first_content_page
  all_problems,              \* convert_pdf: all_problems
  all_images,                \* convert_pdf: all_images
  orphaned_content_by_page,  \* self.orphaned_content_by_page, in insertion order
  problems_by_number,        \* _combine_page_results: the groups after reconciliation
  combined_problems,         \* the "problems" list of the document JSON
  ocr_calls,                 \* the pages submitted to the OCR service, in order
  fn_pc,                     \* a single call of one function: "call" or "return"
  fn_arg,                    \* its argument
  fn_ret                     \* its result

vars == <<pc, doc, page_num, start_page, all_problems, all_images,
          orphaned_content_by_page, problems_by_number, combined_problems, ocr_calls,
          fn_pc, fn_arg, fn_ret>>

pipeline_vars == <<pc, doc, page_num, start_page, all_problems, all_images,
                   orphaned_content_by_page, problems_by_number, combined_problems,
                   ocr_calls>>

fn_vars == <<fn_pc, fn_arg, fn_ret>>

(***************************************************************************)
(* Characters                                                              *)
(***************************************************************************)
LowerLetters == {"a","b","c","d","e","f","g","h","i","j","k","l","m",
                 "n","o","p","q","r","s","t","u","v","w","x","y","z"}
UpperLetters == {"A","B","C","D","E","F","G","H","I","J","K","L","M",
                 "N","O","P","Q","R","S","T","U","V","W","X","Y","Z"}
Digits == {"0","1","2","3","4","5","6","7","8","9"}
Whitespace == {" ", "\t", "\n", "\r"}
LowerAlphabet == "abcdefghijklmnopqrstuvwxyz"
UpperAlphabet == "ABCDEFGHIJKLMNOPQRSTUVWXYZ"
DigitString == "0123456789"

\* the character of s at 0-based offset i
Ch(s, i) == SubSeq(s, i + 1, i + 1)

\* the 1-based place of character c in str, 0 when absent
IndexIn(c, str) ==
  IF \E k \in 1..Len(str) : SubSeq(str, k, k) = c
  THEN CHOOSE k \in 1..Len(str) : SubSeq(str, k, k) = c
  ELSE 0

Lower(c) == IF c \in UpperLetters THEN Ch(LowerAlphabet, IndexIn(c, UpperAlphabet) - 1) ELSE c

\* ord(c) for the characters whose code the program computes
Ord(c) ==
  IF c \in LowerLetters THEN 96 + IndexIn(c, LowerAlphabet)
  ELSE IF c \in UpperLetters THEN 64 + IndexIn(c, UpperAlphabet)
  ELSE IF c \in Digits THEN 47 + IndexIn(c, DigitString)
  ELSE 0

(***************************************************************************)
(* Regular expressions: constructors                                       *)
(***************************************************************************)
Str(w) == [t |-> "str", s |-> w]
Set(cs) == [t |-> "set", S |-> cs, neg |-> FALSE]
Dot == [t |-> "any"]
Cat(rs) == [t |-> "cat", rs |-> rs]
Alt(rs) == [t |-> "alt", rs |-> rs]
Rep(r, lo, hi, greedy) == [t |-> "rep", r |-> r, lo |-> lo, hi |-> hi, greedy |-> greedy]
Star(r) == Rep(r, 0, -1, TRUE)
Plus(r) == Rep(r, 1, -1, TRUE)
Opt(r) == Rep(r, 0, 1, TRUE)
LazyStar(r) == Rep(r, 0, -1, FALSE)
LazyPlus(r) == Rep(r, 1, -1, FALSE)
Grp(k, r) == [t |-> "grp", k |-> k, r |-> r]
Look(r) == [t |-> "look", r |-> r]
Bol == [t |-> "bol"]
Eol == [t |-> "eol"]
Eos == [t |-> "eos"]
Wb == [t |-> "wb"]
D == Set(Digits)
S == Set(Whitespace)
\* a character outside ASCII (the copyright sign, the long dashes): no text of
\* the model holds one, so it matches nowhere
NonAscii == Set({})

(***************************************************************************)
(* Evaluation order                                                        *)
(***************************************************************************)
\* x = value; Body(x): a local variable of the program, assigned once, before
\* anything that reads it runs, and read as often as the code reads it
With(x, Body(_)) == CHOOSE result \in {Body(value) : value \in {x}} : TRUE

(***************************************************************************)
(* Regular expressions: the matcher                                        *)
(***************************************************************************)
\* the flags f of a call are a set of letters: "i" for re.IGNORECASE, "s" for
\* re.DOTALL, "m" for re.MULTILINE
NoCaps == [k \in 1..3 |-> <<-1, -1>>]
Fail == [ok |-> FALSE, start |-> -1, end |-> -1, caps |-> NoCaps]

\* the literal w stands in s at offset i
StrAt(w, s, i, ic) ==
  /\ i >= 0
  /\ i + Len(w) <= Len(s)
  /\ \A k \in 1..Len(w) :
        LET a == SubSeq(w, k, k)
            b == Ch(s, i + k - 1)
        IN (a = b) \/ (ic /\ Lower(a) = Lower(b))

\* the character c is of the class r
InSet(c, r, ic) ==
  LET upper == IF c \in LowerLetters THEN Ch(UpperAlphabet, IndexIn(c, LowerAlphabet) - 1) ELSE c
      m == (c \in r.S) \/ (ic /\ (Lower(c) \in r.S \/ upper \in r.S))
  IN IF r.neg THEN ~m ELSE m

\* a node that consumes exactly one character
IsSingle(r) == r.t \in {"set", "any"} \/ (r.t = "str" /\ Len(r.s) = 1)

One(r, s, i, f) ==
  /\ i < Len(s)
  /\ CASE r.t = "str" -> StrAt(r.s, s, i, "i" \in f)
       [] r.t = "set" -> InSet(Ch(s, i), r, "i" \in f)
       [] r.t = "any" -> "s" \in f \/ Ch(s, i) # "\n"

\* the first offset in lo..hi where the one-character node r does not match,
\* hi + 1 when it matches all along; the interval is halved at each step
RECURSIVE RunEnd(_, _, _, _, _)
RunEnd(r, s, lo, hi, f) ==
  IF lo > hi THEN lo
  ELSE IF lo = hi THEN (IF One(r, s, lo, f) THEN lo + 1 ELSE lo)
  ELSE LET mid == (lo + hi) \div 2
           left == RunEnd(r, s, lo, mid, f)
       IN IF left <= mid THEN left ELSE RunEnd(r, s, mid + 1, hi, f)

\* M matches the nodes of todo one after the other from offset i and answers
\* the first match in backtracking order: [ok, end, caps]
RECURSIVE M(_, _, _, _, _)
RECURSIVE Scan(_, _, _, _, _, _, _)
M(todo, s, i, caps, f) ==
  IF Len(todo) = 0 THEN [ok |-> TRUE, start |-> -1, end |-> i, caps |-> caps]
  ELSE LET r == Head(todo)
           rest == Tail(todo)
       IN CASE r.t = "str" ->
                 IF StrAt(r.s, s, i, "i" \in f) THEN M(rest, s, i + Len(r.s), caps, f) ELSE Fail
            [] r.t \in {"set", "any"} ->
                 IF One(r, s, i, f) THEN M(rest, s, i + 1, caps, f) ELSE Fail
            [] r.t = "cat" -> M(r.rs \o rest, s, i, caps, f)
            [] r.t = "alt" ->
                 IF Len(r.rs) = 0 THEN Fail
                 ELSE LET first == M(<<Head(r.rs)>> \o rest, s, i, caps, f)
                      IN IF first.ok THEN first
                         ELSE M(<<Alt(Tail(r.rs))>> \o rest, s, i, caps, f)
            [] r.t = "rep" /\ IsSingle(r.r) ->
                 LET run == (RunEnd(r.r, s, i, Len(s), f) - i)
                     top == IF r.hi = -1 \/ run < r.hi THEN run ELSE r.hi
                 IN Scan(rest, s, i + r.lo, i + top, caps, f, ~r.greedy)
            [] r.t = "rep" /\ ~IsSingle(r.r) ->
                 LET fewer == [r EXCEPT !.lo = IF @ > 0 THEN @ - 1 ELSE 0,
                                        !.hi = IF @ = -1 THEN -1 ELSE @ - 1]
                     again == <<r.r, [t |-> "progress", at |-> i], fewer>> \o rest
                 IN IF r.lo > 0 THEN M(<<r.r, fewer>> \o rest, s, i, caps, f)
                    ELSE IF r.hi = 0 THEN M(rest, s, i, caps, f)
                    ELSE IF r.greedy
                         THEN LET more == M(again, s, i, caps, f)
                              IN IF more.ok THEN more ELSE M(rest, s, i, caps, f)
                         ELSE LET skip == M(rest, s, i, caps, f)
                              IN IF skip.ok THEN skip ELSE M(again, s, i, caps, f)
            [] r.t = "progress" -> IF i > r.at THEN M(rest, s, i, caps, f) ELSE Fail
            [] r.t = "grp" -> M(<<r.r, [t |-> "close", k |-> r.k, at |-> i]>> \o rest, s, i, caps, f)
            [] r.t = "close" -> M(rest, s, i, [caps EXCEPT ![r.k] = <<r.at, i>>], f)
            [] r.t = "look" ->
                 IF M(<<r.r>>, s, i, caps, f).ok THEN M(rest, s, i, caps, f) ELSE Fail
            [] r.t = "bol" ->
                 IF i = 0 \/ ("m" \in f /\ Ch(s, i - 1) = "\n") THEN M(rest, s, i, caps, f) ELSE Fail
            [] r.t = "eol" ->
                 IF \/ i = Len(s)
                    \/ (i = Len(s) - 1 /\ Ch(s, i) = "\n")
                    \/ ("m" \in f /\ Ch(s, i) = "\n")
                 THEN M(rest, s, i, caps, f) ELSE Fail
            [] r.t = "eos" -> IF i = Len(s) THEN M(rest, s, i, caps, f) ELSE Fail
            [] r.t = "wb" ->
                 LET a == i > 0 /\ Ch(s, i - 1) \in LowerLetters \cup UpperLetters \cup Digits \cup {"_"}
                     b == i < Len(s) /\ Ch(s, i) \in LowerLetters \cup UpperLetters \cup Digits \cup {"_"}
                 IN IF a # b THEN M(rest, s, i, caps, f) ELSE Fail

\* the first match of todo from an offset of lo..hi, the offsets tried upwards
\* (a lazy repetition) or downwards (a greedy one); the interval is halved at
\* each step
Scan(todo, s, lo, hi, caps, f, up) ==
  IF lo > hi THEN Fail
  ELSE IF lo = hi THEN M(todo, s, lo, caps, f)
  ELSE LET mid == (lo + hi) \div 2
           first == IF up THEN Scan(todo, s, lo, mid, caps, f, up)
                    ELSE Scan(todo, s, mid + 1, hi, caps, f, up)
       IN IF first.ok THEN first
          ELSE IF up THEN Scan(todo, s, mid + 1, hi, caps, f, up)
          ELSE Scan(todo, s, lo, mid, caps, f, up)

\* the leftmost match of r that starts at an offset of lo..hi
RECURSIVE SearchIn(_, _, _, _, _)
SearchIn(r, s, lo, hi, f) ==
  IF lo > hi THEN Fail
  ELSE IF lo = hi THEN [M(<<r>>, s, lo, NoCaps, f) EXCEPT !.start = lo]
  ELSE LET mid == (lo + hi) \div 2
           first == SearchIn(r, s, lo, mid, f)
       IN IF first.ok THEN first ELSE SearchIn(r, s, mid + 1, hi, f)

\* re.search(r, s[from:]) with offsets of s: the leftmost match
Search(r, s, from, f) == SearchIn(r, s, from, Len(s), f)

\* re.finditer(r, s): the matches from left to right, none overlapping
RECURSIVE FindAll(_, _, _, _)
FindAll(r, s, from, f) ==
  With(Search(r, s, from, f), LAMBDA m :
    IF ~m.ok THEN <<>>
    ELSE <<m>> \o FindAll(r, s, IF m.end > m.start THEN m.end ELSE m.end + 1, f))

\* re.sub(r, repl, s)
RECURSIVE SubFrom(_, _, _, _, _)
SubFrom(r, repl, s, from, f) ==
  With(Search(r, s, from, f), LAMBDA m :
    IF ~m.ok THEN SubSeq(s, from + 1, Len(s))
    ELSE SubSeq(s, from + 1, m.start) \o repl
         \o SubFrom(r, repl, s, IF m.end > m.start THEN m.end ELSE m.end + 1, f))

\* group k of match m on s
Group(m, s, k) == SubSeq(s, m.caps[k][1] + 1, m.caps[k][2])

(***************************************************************************)
(* Strings and numbers                                                     *)
(***************************************************************************)
\* s[a:b]
Slice(s, a, b) == SubSeq(s, a + 1, b)

\* str.strip()
Strip(s) ==
  IF \A k \in 1..Len(s) : SubSeq(s, k, k) \in Whitespace THEN ""
  ELSE LET a == CHOOSE k \in 1..Len(s) :
                  SubSeq(s, k, k) \notin Whitespace
                  /\ \A j \in 1..(k - 1) : SubSeq(s, j, j) \in Whitespace
           b == CHOOSE k \in 1..Len(s) :
                  SubSeq(s, k, k) \notin Whitespace
                  /\ \A j \in (k + 1)..Len(s) : SubSeq(s, j, j) \in Whitespace
       IN SubSeq(s, a, b)

\* str.rstrip(chars)
RStrip(s, chars) ==
  IF \A k \in 1..Len(s) : SubSeq(s, k, k) \in chars THEN ""
  ELSE LET b == CHOOSE k \in 1..Len(s) :
                  SubSeq(s, k, k) \notin chars
                  /\ \A j \in (k + 1)..Len(s) : SubSeq(s, j, j) \in chars
       IN SubSeq(s, 1, b)

\* w.lower() in s.lower()
ContainsLower(s, w) == \E i \in 0..Len(s) : StrAt(w, s, i, TRUE)

\* s.count(w), for a w that cannot overlap itself
Count(s, w) == Cardinality({i \in 0..Len(s) : StrAt(w, s, i, FALSE)})

\* int(s) for a string of digits
RECURSIVE ToInt(_)
ToInt(s) ==
  IF Len(s) = 0 THEN 0
  ELSE 10 * ToInt(SubSeq(s, 1, Len(s) - 1)) + (IndexIn(SubSeq(s, Len(s), Len(s)), DigitString) - 1)

\* str(n) for n >= 0
RECURSIVE ToStr(_)
ToStr(n) ==
  IF n < 10 THEN Ch(DigitString, n)
  ELSE ToStr(n \div 10) \o Ch(DigitString, n % 10)

\* sorted(xs), for a sequence of integers
RECURSIVE Sorted(_)
Sorted(xs) ==
  IF Len(xs) = 0 THEN <<>>
  ELSE LET k == CHOOSE k \in 1..Len(xs) :
                  /\ \A j \in 1..Len(xs) : xs[k] <= xs[j]
                  /\ \A j \in 1..(k - 1) : xs[j] > xs[k]
       IN <<xs[k]>> \o Sorted([j \in 1..(Len(xs) - 1) |-> IF j < k THEN xs[j] ELSE xs[j + 1]])

\* list.sort(key=lambda x: x[key]): the entries by increasing x[key], equal
\* keys in their order of arrival
RECURSIVE SortedBy(_, _)
SortedBy(xs, key) ==
  IF Len(xs) = 0 THEN <<>>
  ELSE LET k == CHOOSE k \in 1..Len(xs) :
                  /\ \A j \in 1..Len(xs) : xs[k][key] <= xs[j][key]
                  /\ \A j \in 1..(k - 1) : xs[j][key] > xs[k][key]
       IN <<xs[k]>> \o SortedBy([j \in 1..(Len(xs) - 1) |-> IF j < k THEN xs[j] ELSE xs[j + 1]], key)

(***************************************************************************)
(* Boundary detector: the validators                                       *)
(***************************************************************************)
\* a range check that lets every number through
AnyProblemNumber(problem_num) == TRUE

\* a range check with the upper end at 100 and no lower end
NumberAtMostHundred(problem_num) == problem_num <= 100

\* _is_valid_problem_number
_is_valid_problem_number(problem_num) ==
  IF problem_num \in {0, 100, 1000, 10000} THEN FALSE
  ELSE 1 <= problem_num /\ problem_num <= 50

\* the validator with the three tests joined by "and": each of them has to pass
ConjunctiveSequenceValidator(numbers) ==
  IF Len(numbers) = 0 THEN FALSE
  ELSE IF Len(numbers) = 1 THEN TRUE
  ELSE LET sorted == Sorted(numbers)
           gap(i) == sorted[i + 1] - sorted[i]
           idx == 1..(Len(sorted) - 1)
       IN /\ 10 * Cardinality({i \in idx : 1 <= gap(i) /\ gap(i) <= 3}) >= 7 * Cardinality(idx)
          /\ Cardinality({i \in idx : gap(i) > 3}) <= 1
          /\ \A i \in idx : gap(i) <= 10

\* _is_valid_problem_sequence, of the problem numbers of `problems`.
\* len(reasonable_gaps) >= len(gaps) * 0.7 is compared in tenths: the two agree
\* for every count below 60.
_is_valid_problem_sequence(numbers) ==
  IF Len(numbers) = 0 THEN FALSE
  ELSE LET problem_numbers == Sorted(numbers)
           gaps == [i \in 1..(Len(problem_numbers) - 1) |-> problem_numbers[i + 1] - problem_numbers[i]]
           reasonable_gaps == {i \in DOMAIN gaps : 1 <= gaps[i] /\ gaps[i] <= 3}
           large_gaps == {i \in DOMAIN gaps : gaps[i] > 3}
       IN IF Len(problem_numbers) = 1 THEN TRUE
          ELSE IF 10 * Cardinality(reasonable_gaps) >= 7 * Len(gaps) THEN TRUE
          ELSE IF Cardinality(large_gaps) > 1 \/ (\E i \in DOMAIN gaps : gaps[i] > 10) THEN FALSE
          ELSE TRUE

(***************************************************************************)
(* Page filter                                                             *)
(***************************************************************************)
\* _filter_page_content: patterns_to_remove (lines 742-798)
patterns_to_remove == <<
  Cat(<<Str("Gstudocu"), LazyStar(Dot), Str("Studocu"), LazyStar(Dot), Str("university")>>),   \* Gstudocu.*?Studocu.*?university
  Cat(<<Str("Downloaded by"), LazyStar(Dot), Str("@"), LazyStar(Dot), Str(".com")>>),   \* Downloaded by.*?@.*?\.com
  Str("Scan to open on Studocu"),   \* Scan to open on Studocu
  Cat(<<Str("Studocu is not sponsored"), LazyStar(Dot), Str("university")>>),   \* Studocu is not sponsored.*?university
  Cat(<<Str("Introduction to Calculus"), LazyStar(Dot), Str("University of Pennsylvania")>>),   \* Introduction to Calculus.*?University of Pennsylvania
  Str("103finalfall 2014 withans"),   \* 103finalfall 2014 withans
  Cat(<<Str("Page "), Plus(D), Str(" of "), Plus(D)>>),   \* Page \d+ of \d+
  Cat(<<NonAscii, LazyStar(Dot), Str("All rights reserved")>>),
  Str("Confidential"),   \* Confidential
  Str("Draft"),   \* Draft
  Str("Final Exam"),   \* Final Exam
  Cat(<<Str("Name:"), LazyStar(Dot)>>),   \* Name:.*?
  Cat(<<Str("Student ID:"), LazyStar(Dot)>>),   \* Student ID:.*?
  Cat(<<Str("Date:"), LazyStar(Dot)>>),   \* Date:.*?
  Cat(<<Str("Time:"), LazyStar(Dot)>>),   \* Time:.*?
  Cat(<<Str("Instructions:"), LazyStar(Dot)>>),   \* Instructions:.*?
  Cat(<<Str("Total Points:"), LazyStar(Dot)>>),   \* Total Points:.*?
  Str("Show all work"),   \* Show all work
  Str("No calculators allowed"),   \* No calculators allowed
  Str("Good luck"),   \* Good luck
  Cat(<<Str(")"), Star(S), Str("Winter"), Plus(S), Rep(D, 4, 4, TRUE), Plus(S), Str("MATH"), Plus(S), Plus(D), Plus(S), Str("V"), Plus(D), Str(","), Plus(S), Str("P"), Plus(D), Opt(Cat(<<Plus(S), Str("Question")>>))>>),   \* \)\s*Winter\s+\d{4}\s+MATH\s+\d+\s+V\d+,\s+P\d+(?:\s+Question)?
  Cat(<<Str("Winter"), Plus(S), Rep(D, 4, 4, TRUE), Plus(S), Str("MATH"), Plus(S), Plus(D), Plus(S), Str("V"), Plus(D), Str(","), Plus(S), Str("P"), Plus(D), Opt(Cat(<<Plus(S), Str("Question")>>))>>),   \* Winter\s+\d{4}\s+MATH\s+\d+\s+V\d+,\s+P\d+(?:\s+Question)?
  Cat(<<Str("Course:"), Star(S), Str("MATH"), Star(S), Plus(D), LazyStar(Dot), Str("Page number:"), Star(S), Plus(D), Star(S), Str("of"), Star(S), Plus(D)>>),   \* Course:\s*MATH\s*\d+.*?Page number:\s*\d+\s*of\s*\d+
  Cat(<<Str("INSTRUCTIONS"), Star(S), Str("-"), Star(S), Str("You have until"), LazyStar(Dot), Str("enjoy the summer!")>>),   \* INSTRUCTIONS\s*-\s*You have until.*?enjoy the summer!
  Cat(<<Str("You have until"), LazyStar(Dot), Str("submit it on myCourses"), LazyStar(Dot), Str("No late submissions will be accepted")>>),   \* You have until.*?submit it on myCourses.*?No late submissions will be accepted
  Cat(<<Str("All solutions should be your own"), LazyStar(Dot), Str("solve the problems")>>),   \* All solutions should be your own.*?solve the problems
  Cat(<<Str("Show and justify each step"), LazyStar(Dot), Str("simplify the answers")>>),   \* Show and justify each step.*?simplify the answers
  Cat(<<Str("You may answer the questions directly"), LazyStar(Dot), Str("single PDF file")>>),   \* You may answer the questions directly.*?single PDF file
  Str("Stay safe and enjoy the summer!"),   \* Stay safe and enjoy the summer!
  Cat(<<Str("University of Pennsylvania"), LazyStar(Dot), Str("Math 103"), LazyStar(Dot), Str("Fall 2014")>>),   \* University of Pennsylvania.*?Math 103.*?Fall 2014
  Cat(<<Str("Name"), LazyStar(Dot), Str("PRINT"), LazyStar(Dot), Str("Professor"), LazyStar(Dot), Str("Rimmer"), LazyStar(Dot), Str("Wong"), LazyStar(Dot), Str("Towsner")>>),   \* Name.*?PRINT.*?Professor.*?Rimmer.*?Wong.*?Towsner
  Cat(<<Str("Penn ID"), LazyStar(Dot), Str("Recitation Number"), LazyStar(Dot), Str("Rec. Day"), LazyStar(Dot), Str("Rec. Time")>>),   \* Penn ID.*?Recitation Number.*?Rec\. Day.*?Rec\. Time
  Cat(<<Str("This exam has"), LazyStar(Dot), Str("multiple choice questions"), LazyStar(Dot), Str("open-ended questions")>>),   \* This exam has.*?multiple choice questions.*?open-ended questions
  Cat(<<Str("Each question is worth"), LazyStar(Dot), Str("points")>>),   \* Each question is worth.*?points
  Cat(<<Str("Partial credit will be given"), LazyStar(Dot), Str("supporting work")>>),   \* Partial credit will be given.*?supporting work
  Cat(<<Str("correct answer with little or no supporting work"), LazyStar(Dot), Str("little or no credit")>>),   \* correct answer with little or no supporting work.*?little or no credit
  Cat(<<Str("Use the space provided"), LazyStar(Dot), Str("scrap paper is provided")>>),   \* Use the space provided.*?scrap paper is provided
  Cat(<<Str("If you write on the back"), LazyStar(Dot), Str("indicate this in some way")>>),   \* If you write on the back.*?indicate this in some way
  Cat(<<Str("You have 120 minutes"), LazyStar(Dot), Str("complete the exam")>>),   \* You have 120 minutes.*?complete the exam
  Cat(<<Str("You are not allowed"), LazyStar(Dot), Str("calculator"), LazyStar(Dot), Str("electronic device")>>),   \* You are not allowed.*?calculator.*?electronic device
  Cat(<<Str("You are allowed to use"), LazyStar(Dot), Str("handwritten notes")>>),   \* You are allowed to use.*?handwritten notes
  Cat(<<Str("Please silence"), LazyStar(Dot), Str("electronic devices")>>),   \* Please silence.*?electronic devices
  Cat(<<Str("When you finish"), LazyStar(Dot), Str("120 minutes has elapsed")>>),   \* When you finish.*?120 minutes has elapsed
  Cat(<<Str("When time is up"), LazyStar(Dot), Str("collect your exam")>>),   \* When time is up.*?collect your exam
  Cat(<<Str("Once you have completed"), LazyStar(Dot), Str("academic integrity statement")>>),   \* Once you have completed.*?academic integrity statement
  Cat(<<Str("Do NOT write in the grid"), LazyStar(Dot), Str("grading purposes only")>>),   \* Do NOT write in the grid.*?grading purposes only
  Cat(<<Str("\\begin{tabular}"), LazyStar(Dot), Str("\\end{tabular}")>>),   \* \\begin\{tabular\}.*?\\end\{tabular\}
  Cat(<<Str("My signature below"), LazyStar(Dot), Str("Academic Integrity"), LazyStar(Dot), Str("examination paper")>>),   \* My signature below.*?Academic Integrity.*?examination paper
  Cat(<<Str("Name (printed)"), LazyStar(Dot), Str("Score"), LazyStar(Dot), Str("Signature"), LazyStar(Dot), Str("Date")>>),   \* Name \(printed\).*?Score.*?Signature.*?Date
  Cat(<<Str("Problem"), LazyStar(Dot), Str("Points"), LazyStar(Dot), Str("Problem"), LazyStar(Dot), Str("Points")>>),   \* Problem.*?Points.*?Problem.*?Points
  Cat(<<Str("\\hline"), LazyStar(Dot), Str("\\hline")>>),   \* \\hline.*?\\hline
  Cat(<<Str("\\\\"), LazyStar(Dot), Str("\\\\")>>)   \* \\\\.*?\\\\
>>

\* the patterns lo..hi removed from text one after the other; the range is
\* halved at each step
RECURSIVE RemoveRange(_, _, _, _, _)
RemoveRange(patterns, lo, hi, text, f) ==
  IF lo > hi THEN text
  ELSE IF lo = hi THEN SubFrom(patterns[lo], "", text, 0, f)
  ELSE With(RemoveRange(patterns, lo, (lo + hi) \div 2, text, f), LAMBDA half :
         RemoveRange(patterns, (lo + hi) \div 2 + 1, hi, half, f))

CollapseWhitespace(text) == SubFrom(Plus(S), " ", text, 0, {})

\* _filter_page_content (page_num is not read)
_filter_page_content(content) ==
  Strip(CollapseWhitespace(RemoveRange(patterns_to_remove, 1, Len(patterns_to_remove), content, {"i", "s"})))

(***************************************************************************)
(* The conversion at rest: what the variables of convert_pdf hold while a  *)
(* single function is exercised on its own                                 *)
(***************************************************************************)
AtRest ==
  /\ pc = "rest"
  /\ doc = <<>>
  /\ page_num = 0
  /\ start_page = 1
  /\ all_problems = <<>>
  /\ all_images = <<>>
  /\ orphaned_content_by_page = <<>>
  /\ problems_by_number = <<>>
  /\ combined_problems = <<>>
  /\ ocr_calls = <<>>

\* sequences over A of length at most n
SeqsUpTo(A, n) == UNION {[1..k -> A] : k \in 0..n}

(***************************************************************************)
(* SeqSpec: _is_valid_problem_sequence called on a candidate set           *)
(***************************************************************************)
\* longest candidate set tried
MaxCandidates == 5

\* problem numbers the candidates carry: every gap class occurs between them
\* (0, 1..3, 4..10, above 10)
CandidateNumbers == {1, 2, 3, 4, 5, 9, 50}

SeqInit ==
  /\ AtRest
  /\ fn_pc = "call"
  /\ fn_arg \in SeqsUpTo(CandidateNumbers, MaxCandidates)
  /\ fn_ret = FALSE

ValidateSequence ==
  /\ fn_pc = "call"
  /\ fn_ret' = _is_valid_problem_sequence(fn_arg)
  /\ fn_pc' = "return"
  /\ UNCHANGED <<fn_arg, pipeline_vars>>

SeqSpec == SeqInit /\ [][ValidateSequence]_vars

\* the gaps between consecutive sorted problem numbers
GapsOf(numbers) ==
  LET sorted == Sorted(numbers)
  IN [i \in 1..(Len(numbers) - 1) |-> sorted[i + 1] - sorted[i]]

MostGapsSmall(g) == 10 * Cardinality({i \in DOMAIN g : g[i] \in 1..3}) >= 7 * Len(g)
AtMostOneBigGap(g) == Cardinality({i \in DOMAIN g : g[i] > 3}) <= 1
NoHugeGap(g) == \A i \in DOMAIN g : g[i] <= 10

\* C1 as stated: a set of two or more candidates is accepted only if at least
\* 70% of the gaps lie in 1..3 and at most one gap exceeds 3 and no gap exceeds
\* 10; one candidate is accepted; no candidate is rejected.
C1_AcceptedOnlyIfAllThree ==
  fn_pc = "return" =>
    /\ Len(fn_arg) = 0 => ~fn_ret
    /\ Len(fn_arg) = 1 => fn_ret
    /\ (Len(fn_arg) >= 2 /\ fn_ret) =>
          /\ MostGapsSmall(GapsOf(fn_arg))
          /\ AtMostOneBigGap(GapsOf(fn_arg))
          /\ NoHugeGap(GapsOf(fn_arg))

\* C1: the sequence validator accepts a set of two or more candidates exactly
\* when at least 70% of the gaps between consecutive sorted numbers lie in
\* 1..3, or else when at most one gap exceeds 3 and no gap exceeds 10; one
\* candidate is always accepted and the empty set is rejected.
C1_AcceptedIffRatioOrFewBigGaps ==
  fn_pc = "return" =>
    /\ Len(fn_arg) = 0 => ~fn_ret
    /\ Len(fn_arg) = 1 => fn_ret
    /\ Len(fn_arg) >= 2 =>
          (fn_ret <=> \/ MostGapsSmall(GapsOf(fn_arg))
                      \/ (AtMostOneBigGap(GapsOf(fn_arg)) /\ NoHugeGap(GapsOf(fn_arg))))

\* a set accepted on the ratio alone, although it holds a gap above 10
C1_Witness ==
  /\ fn_pc = "return"
  /\ fn_ret
  /\ Len(fn_arg) >= 2
  /\ MostGapsSmall(GapsOf(fn_arg))
  /\ ~NoHugeGap(GapsOf(fn_arg))

(***************************************************************************)
(* FilterSpec: _filter_page_content called on a page text, and called      *)
(* again on what it returned                                               *)
(***************************************************************************)
\* most pieces a page text is put together from
MaxPieces == 3

\* the pieces: words of the removal rules, whole and cut in two, a line break
\* between them, and text that no rule touches
TextPieces == {"Good", "luck", "\n", "Dr", "aft", " x"}

RECURSIVE Concat(_)
Concat(pieces) == IF Len(pieces) = 0 THEN "" ELSE Head(pieces) \o Concat(Tail(pieces))

FilterInit ==
  /\ AtRest
  /\ fn_pc = "call"
  /\ fn_arg \in {Concat(ps) : ps \in SeqsUpTo(TextPieces, MaxPieces)}
  /\ fn_ret = <<>>

FilterOnce ==
  /\ fn_pc = "call"
  /\ fn_ret' = <<_filter_page_content(fn_arg)>>
  /\ fn_pc' = "once"
  /\ UNCHANGED <<fn_arg, pipeline_vars>>

FilterAgain ==
  /\ fn_pc = "once"
  /\ fn_ret' = Append(fn_ret, _filter_page_content(fn_ret[1]))
  /\ fn_pc' = "twice"
  /\ UNCHANGED <<fn_arg, pipeline_vars>>

FilterNext == FilterOnce \/ FilterAgain

FilterSpec == FilterInit /\ [][FilterNext]_vars

\* C7: page filtering is idempotent: filtering the filtered text changes
\* nothing.
C7_FilterIdempotent == fn_pc = "twice" => fn_ret[2] = fn_ret[1]

(***************************************************************************)
(* Text cleaning and solutions                                             *)
(***************************************************************************)
\* None, and a value that is present
None == <<>>
Some(x) == <<x>>

\* _html_escape_math_symbols
_html_escape_math_symbols(text) ==
  SubFrom(Str(">"), "&gt;", SubFrom(Str("<"), "&lt;", text, 0, {}), 0, {})

\* _clean_text: metadata_patterns (lines 1516-1574)
metadata_patterns == <<
  Cat(<<Str("Gstudocu"), LazyStar(Dot), Str("Studocu"), LazyStar(Dot), Str("university")>>),   \* Gstudocu.*?Studocu.*?university
  Cat(<<Str("Downloaded by"), LazyStar(Dot), Str("@"), LazyStar(Dot), Str(".com")>>),   \* Downloaded by.*?@.*?\.com
  Str("Scan to open on Studocu"),   \* Scan to open on Studocu
  Cat(<<Str("Studocu is not sponsored"), LazyStar(Dot), Str("university")>>),   \* Studocu is not sponsored.*?university
  Cat(<<Str("Introduction to Calculus"), LazyStar(Dot), Str("University of Pennsylvania")>>),   \* Introduction to Calculus.*?University of Pennsylvania
  Str("103finalfall 2014 withans"),   \* 103finalfall 2014 withans
  Cat(<<Str("Page "), Plus(D), Str(" of "), Plus(D)>>),   \* Page \d+ of \d+
  Cat(<<NonAscii, LazyStar(Dot), Str("All rights reserved")>>),
  Str("Confidential"),   \* Confidential
  Str("Draft"),   \* Draft
  Str("Final Exam"),   \* Final Exam
  Cat(<<Str("Name:"), LazyStar(Dot)>>),   \* Name:.*?
  Cat(<<Str("Student ID:"), LazyStar(Dot)>>),   \* Student ID:.*?
  Cat(<<Str("Date:"), LazyStar(Dot)>>),   \* Date:.*?
  Cat(<<Str("Time:"), LazyStar(Dot)>>),   \* Time:.*?
  Cat(<<Str("Instructions:"), LazyStar(Dot)>>),   \* Instructions:.*?
  Cat(<<Str("Total Points:"), LazyStar(Dot)>>),   \* Total Points:.*?
  Str("Show all work"),   \* Show all work
  Str("No calculators allowed"),   \* No calculators allowed
  Str("Good luck"),   \* Good luck
  Str("jeremywu12345@gmail.com"),   \* jeremywu12345@gmail\.com
  Str("jeremywu12345"),   \* jeremywu12345
  Cat(<<Str(")"), Star(S), Str("Winter"), Plus(S), Rep(D, 4, 4, TRUE), Plus(S), Str("MATH"), Plus(S), Plus(D), Plus(S), Str("V"), Plus(D), Str(","), Plus(S), Str("P"), Plus(D), Opt(Cat(<<Plus(S), Str("Question")>>))>>),   \* \)\s*Winter\s+\d{4}\s+MATH\s+\d+\s+V\d+,\s+P\d+(?:\s+Question)?
  Cat(<<Str("Winter"), Plus(S), Rep(D, 4, 4, TRUE), Plus(S), Str("MATH"), Plus(S), Plus(D), Plus(S), Str("V"), Plus(D), Str(","), Plus(S), Str("P"), Plus(D), Opt(Cat(<<Plus(S), Str("Question")>>))>>),   \* Winter\s+\d{4}\s+MATH\s+\d+\s+V\d+,\s+P\d+(?:\s+Question)?
  Cat(<<Str("Course:"), Star(S), Str("MATH"), Star(S), Plus(D), LazyStar(Dot), Str("Page number:"), Star(S), Plus(D), Star(S), Str("of"), Star(S), Plus(D)>>),   \* Course:\s*MATH\s*\d+.*?Page number:\s*\d+\s*of\s*\d+
  Cat(<<Str("INSTRUCTIONS"), Star(S), Str("-"), Star(S), Str("You have until"), LazyStar(Dot), Str("enjoy the summer!")>>),   \* INSTRUCTIONS\s*-\s*You have until.*?enjoy the summer!
  Cat(<<Str("You have until"), LazyStar(Dot), Str("submit it on myCourses"), LazyStar(Dot), Str("No late submissions will be accepted")>>),   \* You have until.*?submit it on myCourses.*?No late submissions will be accepted
  Cat(<<Str("All solutions should be your own"), LazyStar(Dot), Str("solve the problems")>>),   \* All solutions should be your own.*?solve the problems
  Cat(<<Str("Show and justify each step"), LazyStar(Dot), Str("simplify the answers")>>),   \* Show and justify each step.*?simplify the answers
  Cat(<<Str("You may answer the questions directly"), LazyStar(Dot), Str("single PDF file")>>),   \* You may answer the questions directly.*?single PDF file
  Str("Stay safe and enjoy the summer!"),   \* Stay safe and enjoy the summer!
  Cat(<<Str("University of Pennsylvania"), LazyStar(Dot), Str("Math 103"), LazyStar(Dot), Str("Fall 2014")>>),   \* University of Pennsylvania.*?Math 103.*?Fall 2014
  Cat(<<Str("Name"), LazyStar(Dot), Str("PRINT"), LazyStar(Dot), Str("Professor"), LazyStar(Dot), Str("Rimmer"), LazyStar(Dot), Str("Wong"), LazyStar(Dot), Str("Towsner")>>),   \* Name.*?PRINT.*?Professor.*?Rimmer.*?Wong.*?Towsner
  Cat(<<Str("Penn ID"), LazyStar(Dot), Str("Recitation Number"), LazyStar(Dot), Str("Rec. Day"), LazyStar(Dot), Str("Rec. Time")>>),   \* Penn ID.*?Recitation Number.*?Rec\. Day.*?Rec\. Time
  Cat(<<Str("This exam has"), LazyStar(Dot), Str("multiple choice questions"), LazyStar(Dot), Str("open-ended questions")>>),   \* This exam has.*?multiple choice questions.*?open-ended questions
  Cat(<<Str("Each question is worth"), LazyStar(Dot), Str("points")>>),   \* Each question is worth.*?points
  Cat(<<Str("Partial credit will be given"), LazyStar(Dot), Str("supporting work")>>),   \* Partial credit will be given.*?supporting work
  Cat(<<Str("correct answer with little or no supporting work"), LazyStar(Dot), Str("little or no credit")>>),   \* correct answer with little or no supporting work.*?little or no credit
  Cat(<<Str("Use the space provided"), LazyStar(Dot), Str("scrap paper is provided")>>),   \* Use the space provided.*?scrap paper is provided
  Cat(<<Str("If you write on the back"), LazyStar(Dot), Str("indicate this in some way")>>),   \* If you write on the back.*?indicate this in some way
  Cat(<<Str("You have 120 minutes"), LazyStar(Dot), Str("complete the exam")>>),   \* You have 120 minutes.*?complete the exam
  Cat(<<Str("You are not allowed"), LazyStar(Dot), Str("calculator"), LazyStar(Dot), Str("electronic device")>>),   \* You are not allowed.*?calculator.*?electronic device
  Cat(<<Str("You are allowed to use"), LazyStar(Dot), Str("handwritten notes")>>),   \* You are allowed to use.*?handwritten notes
  Cat(<<Str("Please silence"), LazyStar(Dot), Str("electronic devices")>>),   \* Please silence.*?electronic devices
  Cat(<<Str("When you finish"), LazyStar(Dot), Str("120 minutes has elapsed")>>),   \* When you finish.*?120 minutes has elapsed
  Cat(<<Str("When time is up"), LazyStar(Dot), Str("collect your exam")>>),   \* When time is up.*?collect your exam
  Cat(<<Str("Once you have completed"), LazyStar(Dot), Str("academic integrity statement")>>),   \* Once you have completed.*?academic integrity statement
  Cat(<<Str("Do NOT write in the grid"), LazyStar(Dot), Str("grading purposes only")>>),   \* Do NOT write in the grid.*?grading purposes only
  Cat(<<Str("\\begin{tabular}"), LazyStar(Dot), Str("\\end{tabular}")>>),   \* \\begin\{tabular\}.*?\\end\{tabular\}
  Cat(<<Str("My signature below"), LazyStar(Dot), Str("Academic Integrity"), LazyStar(Dot), Str("examination paper")>>),   \* My signature below.*?Academic Integrity.*?examination paper
  Cat(<<Str("Name (printed)"), LazyStar(Dot), Str("Score"), LazyStar(Dot), Str("Signature"), LazyStar(Dot), Str("Date")>>),   \* Name \(printed\).*?Score.*?Signature.*?Date
  Cat(<<Str("Problem"), LazyStar(Dot), Str("Points"), LazyStar(Dot), Str("Problem"), LazyStar(Dot), Str("Points")>>),   \* Problem.*?Points.*?Problem.*?Points
  Cat(<<Str("\\hline"), LazyStar(Dot), Str("\\hline")>>),   \* \\hline.*?\\hline
  Cat(<<Str("\\\\"), LazyStar(Dot), Str("\\\\")>>)   \* \\\\.*?\\\\
>>

\* _clean_text: page markers, escaping, metadata, whitespace, a leading "1. "
_clean_text(text) ==
  Strip(
    SubFrom(Cat(<<Bol, Star(S), Plus(D), Str("."), Star(S)>>), "", CollapseWhitespace(
        RemoveRange(metadata_patterns, 1, Len(metadata_patterns), _html_escape_math_symbols(
            SubFrom(Cat(<<Str("--- PAGE "), Plus(D), Str(" ---")>>), "", text, 0, {})), {"i", "s"})), 0, {}))

\* _extract_solution: solution_patterns (lines 1779-1785)
solution_patterns == <<
  Cat(<<Wb, Str("Solution"), Set({":", "."}), Star(S)>>),   \* \bSolution[:\.]\s*
  Cat(<<Wb, Str("Answer"), Set({":", "."}), Star(S)>>),   \* \bAnswer[:\.]\s*
  Cat(<<Wb, Str("Sol"), Set({":", "."}), Star(S)>>),   \* \bSol[:\.]\s*
  Cat(<<Wb, Str("Solution"), Star(S), Str(":")>>),   \* \bSolution\s*:
  Cat(<<Wb, Str("Answer"), Star(S), Str(":")>>)   \* \bAnswer\s*:
>>

\* the split at the marker of the first pattern of the list that is found,
\* wherever the other markers stand
ExtractAtFirstPattern(content) ==
  LET found == {k \in 1..Len(solution_patterns) : Search(solution_patterns[k], content, 0, {"i"}).ok}
  IN IF found = {} THEN [problem_text |-> content, solution |-> None]
     ELSE With(Search(solution_patterns[CHOOSE k \in found : \A j \in found : k <= j],
                      content, 0, {"i"}),
            LAMBDA best_match :
              LET solution_text == Strip(Slice(content, best_match.end, Len(content)))
              IN [problem_text |-> RStrip(Strip(Slice(content, 0, best_match.start)), {" ", ".", ":"}),
                  solution |-> IF solution_text # "" THEN Some(solution_text) ELSE None])

\* _extract_solution: (problem_text, solution)
_extract_solution(content) ==
  LET \* _extract_solution: the earliest solution marker, the first pattern winning a tie
      RECURSIVE BestSolutionMatch(_, _)
      BestSolutionMatch(patterns, best) ==
        IF Len(patterns) = 0 THEN best
        ELSE With(Search(Head(patterns), content, 0, {"i"}), LAMBDA match :
               BestSolutionMatch(Tail(patterns), IF match.ok /\ match.start < (IF best.ok THEN best.start ELSE Len(content))
                 THEN match ELSE best))
  IN
  With(BestSolutionMatch(solution_patterns, Fail), LAMBDA best_match :
    LET problem_text == RStrip(Strip(Slice(content, 0, best_match.start)), {" ", ".", ":"})
        solution_text == Strip(Slice(content, best_match.end, Len(content)))
    IN IF best_match.ok
       THEN [problem_text |-> problem_text,
             solution |-> IF solution_text # "" THEN Some(solution_text) ELSE None]
       ELSE [problem_text |-> content, solution |-> None])

(***************************************************************************)
(* Subproblem splitter                                                     *)
(***************************************************************************)
\* some pattern of the list is found in s
AnyFound(patterns, s, f) == \E k \in 1..Len(patterns) : Search(patterns[k], s, 0, f).ok

\* a dict in insertion order, as a sequence of entries with a key: d[key] = entry
DictSet(d, entry) ==
  IF \E k \in 1..Len(d) : d[k].key = entry.key
  THEN [k \in 1..Len(d) |-> IF d[k].key = entry.key THEN entry ELSE d[k]]
  ELSE Append(d, entry)

\* _clean_subproblem_content: header_patterns (lines 944-947)
subproblem_header_patterns == <<
  Cat(<<Str(")"), Star(S), Str("Winter"), Plus(S), Rep(D, 4, 4, TRUE), Plus(S), Str("MATH"), Plus(S), Plus(D), Plus(S), Str("V"), Plus(D), Str(","), Plus(S), Str("P"), Plus(D), Opt(Cat(<<Plus(S), Str("Question")>>))>>),   \* \)\s*Winter\s+\d{4}\s+MATH\s+\d+\s+V\d+,\s+P\d+(?:\s+Question)?
  Cat(<<Str("Winter"), Plus(S), Rep(D, 4, 4, TRUE), Plus(S), Str("MATH"), Plus(S), Plus(D), Plus(S), Str("V"), Plus(D), Str(","), Plus(S), Str("P"), Plus(D), Opt(Cat(<<Plus(S), Str("Question")>>))>>)   \* Winter\s+\d{4}\s+MATH\s+\d+\s+V\d+,\s+P\d+(?:\s+Question)?
>>

\* _clean_subproblem_content
_clean_subproblem_content(content) ==
  Strip(RemoveRange(subproblem_header_patterns, 1, Len(subproblem_header_patterns), content, {"i"}))

\* _is_valid_subproblem_content: math_indicators (lines 894-909)
subproblem_math_indicators == <<
  Cat(<<Wb, Grp(1, Alt(<<Str("derivative"), Str("integral"), Str("limit"), Str("function"), Str("equation"), Str("solve"), Str("find"), Str("calculate"), Str("compute"), Str("evaluate")>>)), Wb>>),   \* \b(derivative|integral|limit|function|equation|solve|find|calculate|compute|evaluate)\b
  Cat(<<Set(LowerLetters \cup UpperLetters), Str("("), Set(LowerLetters \cup UpperLetters), Str(")")>>),   \* [a-zA-Z]\([a-zA-Z]\)
  Cat(<<Plus(D), Star(S), Set({"+", "-", "*", "/"}), Star(S), Plus(D)>>),   \* [0-9]+\s*[+\-*/]\s*[0-9]+
  Cat(<<Set(LowerLetters \cup UpperLetters), Star(S), Str("="), Star(S), Plus(Set(LowerLetters \cup UpperLetters \cup Digits \cup {"+", "-", "*", "/", "(", ")"}))>>),   \* [a-zA-Z]\s*=\s*[a-zA-Z0-9+\-*/()]+
  Cat(<<Set(LowerLetters \cup UpperLetters), Str("^"), Plus(D)>>),   \* [a-zA-Z]\^[0-9]+
  Cat(<<Str("\\frac{"), LazyStar(Dot), Str("}{"), LazyStar(Dot), Str("}")>>),   \* \\frac\{.*?\}\{.*?\}
  Cat(<<Str("\\sqrt{"), LazyStar(Dot), Str("}")>>),   \* \\sqrt\{.*?\}
  Str("\\int"),   \* \\int
  Str("\\lim"),   \* \\lim
  Cat(<<Str("\\arc"), Alt(<<Str("sin"), Str("cos"), Str("tan")>>)>>),   \* \\arcsin|\\arccos|\\arctan
  Cat(<<Str("\\"), Alt(<<Str("cosh"), Str("sinh"), Str("tanh")>>)>>),   \* \\cosh|\\sinh|\\tanh
  Cat(<<Str("\\"), Alt(<<Str("cos"), Str("sin"), Str("tan")>>)>>),   \* \\cos|\\sin|\\tan
  Cat(<<Str("\\"), Alt(<<Str("log"), Str("ln"), Str("exp")>>)>>),   \* \\log|\\ln|\\exp
  Cat(<<Str("\\"), Plus(Set(LowerLetters \cup UpperLetters)), Star(S), Str("("), Star([Set({")"}) EXCEPT !.neg = TRUE]), Str(")")>>)   \* \\[a-zA-Z]+\s*\([^)]*\)
>>

\* _is_valid_subproblem_content: problem_keywords (lines 917-920)
problem_keywords == <<"find", "solve", "calculate", "compute", "determine", "evaluate", "prove", "show", "derive", "integrate", "differentiate">>

\* _is_valid_subproblem_content
_is_valid_subproblem_content(content) ==
  With(_clean_subproblem_content(content), LAMBDA cleaned_content :
    IF Len(Strip(cleaned_content)) < 3 THEN FALSE
    ELSE \/ AnyFound(subproblem_math_indicators, cleaned_content, {"i"})
         \/ \E k \in 1..Len(problem_keywords) : ContainsLower(cleaned_content, problem_keywords[k])
         \/ (Count(cleaned_content, "\\(") > 0 /\ Count(cleaned_content, "\\)") > 0)
         \/ (/\ Search(Set(LowerLetters \cup UpperLetters), cleaned_content, 0, {}).ok
             /\ Len(Strip(cleaned_content)) >= 3))

\* _indicates_subproblems_expected: indicators (lines 958-967)
indicators == <<
  Str("find the following"),   \* find the following
  Str("determine the following"),   \* determine the following
  Str("calculate the following"),   \* calculate the following
  Str("evaluate the following"),   \* evaluate the following
  Str("compute the following"),   \* compute the following
  Str("solve the following"),   \* solve the following
  Str("show the following"),   \* show the following
  Str("prove the following")   \* prove the following
>>

\* _indicates_subproblems_expected
_indicates_subproblems_expected(content) == AnyFound(indicators, content, {"i"})

\* the entry of the subproblems dict built from a subproblem's content
SubproblemEntry(key, content) ==
  With(_extract_solution(_clean_subproblem_content(content)), LAMBDA split :
    [key |-> key,
     problem_text |-> _clean_text(split.problem_text),
     solution |-> IF split.solution # None
                  THEN Some([text |-> _clean_text(split.solution[1]), images |-> <<>>])
                  ELSE None,
     images |-> <<>>])

\* _extract_text_based_subproblems: skip_patterns (lines 994-1000)
skip_patterns == <<
  Cat(<<Bol, Str("Given:")>>),   \* ^Given:
  Cat(<<Bol, Str("Note:")>>),   \* ^Note:
  Cat(<<Bol, Str("Hint:")>>),   \* ^Hint:
  Str("find the following"),   \* find the following
  Str("marks)")   \* marks\)
>>

\* _extract_text_based_subproblems: the loop over the sentences
RECURSIVE TextSubproblems(_, _)
TextSubproblems(sentences, subproblems) ==
  IF Len(sentences) = 0 \/ Len(subproblems) >= 6 THEN subproblems
  ELSE LET sentence == Strip(Head(sentences))
       IN IF \/ Len(sentence) < 10
             \/ AnyFound(skip_patterns, sentence, {"i"})
             \/ ~_is_valid_subproblem_content(sentence)
          THEN TextSubproblems(Tail(sentences), subproblems)
          ELSE TextSubproblems(Tail(sentences),
                 Append(subproblems, SubproblemEntry(Ch(LowerAlphabet, Len(subproblems)), sentence)))

\* _extract_text_based_subproblems
_extract_text_based_subproblems(content) ==
  LET \* re.split(r, s), for a pattern without groups
      ReSplit(r, s, f) ==
        With(FindAll(r, s, 0, f), LAMBDA ms :
          [k \in 1..(Len(ms) + 1) |->
             Slice(s, IF k = 1 THEN 0 ELSE ms[k - 1].end,
                      IF k = Len(ms) + 1 THEN Len(s) ELSE ms[k].start)])
  IN
  TextSubproblems(ReSplit(Cat(<<Set({".", "!", "?"}), Plus(S)>>), content, {}), <<>>)

\* str.lower()
RECURSIVE LowerStr(_)
LowerStr(s) ==
  IF Len(s) = 0 THEN "" ELSE Lower(SubSeq(s, 1, 1)) \o LowerStr(SubSeq(s, 2, Len(s)))

\* _extract_subproblems: patterns (lines 1293-1304)
subproblem_patterns == <<
  Cat(<<Grp(1, Set(LowerLetters \cup UpperLetters)), Str(")")>>),   \* ([a-zA-Z])\)
  Cat(<<Grp(1, Set(LowerLetters \cup UpperLetters)), Str(".")>>),   \* ([a-zA-Z])\.
  Cat(<<Str("("), Grp(1, Set(LowerLetters \cup UpperLetters)), Str(")")>>),   \* \(([a-zA-Z])\)
  Cat(<<Grp(1, Plus(Set({"i", "v"}))), Str(")")>>),   \* ([iv]+)\)
  Cat(<<Grp(1, Plus(D)), Str(")")>>)   \* (\d+)\)
>>

\* _extract_subproblems: pattern_name
pattern_names == <<"a)", "a.", "(a)", "i)", "1)">>

\* the marker at offset `start` lies inside a LaTeX expression
InsideLatex(content, start) ==
  LET before_marker == Slice(content, 0, start)
      open_inline == Count(before_marker, "\\(") - Count(before_marker, "\\)")
      open_display == Count(before_marker, "\\[") - Count(before_marker, "\\]")
      open_dollar == Count(before_marker, "$") % 2
  IN open_inline > 0 \/ open_display > 0 \/ open_dollar = 1

\* _extract_subproblems: subproblem_markers, sorted by position
SubproblemMarkers(content) ==
  LET \* _extract_subproblems: is_valid_context
      IsValidContext(marker_start) ==
        LET dot_space_before == marker_start >= 2 /\ Slice(content, marker_start - 2, marker_start) = ". "
            char_before == IF marker_start > 0 THEN Ch(content, marker_start - 1) ELSE "\n"
        IN \/ dot_space_before
           \/ char_before \in {"\n", " ", "\t"}
           \/ char_before \in {".", "!", "?", ":"}
           \/ marker_start = 0
      \* _extract_subproblems: the matches of one pattern added to subproblem_markers
      RECURSIVE AddMarkers(_, _, _)
      AddMarkers(matches, pattern_name, markers) ==
        IF Len(matches) = 0 THEN markers
        ELSE LET match == Head(matches)
                 duplicate == \E k \in 1..Len(markers) :
                                markers[k].start - match.start < 3 /\ match.start - markers[k].start < 3
                 marker == [key |-> LowerStr(Group(match, content, 1)),
                            start |-> match.start,
                            end |-> match.end,
                            marker_text |-> Slice(content, match.start, match.end),
                            pattern |-> pattern_name]
             IN AddMarkers(Tail(matches), pattern_name, IF \/ InsideLatex(content, match.start)
                     \/ ~IsValidContext(match.start)
                     \/ duplicate
                  THEN markers ELSE Append(markers, marker))
      \* the markers found by the patterns from index k on, added to `markers`
      RECURSIVE ScanPatterns(_, _, _, _)
      ScanPatterns(patterns, names, k, markers) ==
        IF k > Len(patterns) THEN markers
        ELSE With(AddMarkers(FindAll(patterns[k], content, 0, {"m"}), names[k], markers),
                  LAMBDA found : ScanPatterns(patterns, names, k + 1, found))
  IN
  SortedBy(ScanPatterns(subproblem_patterns, pattern_names, 1, <<>>), "start")

\* the keys a, b, c, ... of n markers in a row
ExpectedSequence(n) == [i \in 1..n |-> Ch(LowerAlphabet, i - 1)]

\* max - min of ord(k) - ord('a') over the keys
LetterSpan(keys) ==
  LET letter_nums == {Ord(keys[i]) - Ord("a") : i \in 1..Len(keys)}
  IN (CHOOSE hi \in letter_nums : \A n \in letter_nums : n <= hi)
     - (CHOOSE lo \in letter_nums : \A n \in letter_nums : lo <= n)

\* a detector that never takes the markers for answer options
NeverMultipleChoice(markers) == [raised |-> FALSE, value |-> FALSE]

\* _is_multiple_choice_sequence; ord() of a key of several characters raises
\* TypeError
_is_multiple_choice_sequence(markers) ==
  LET keys == [i \in 1..Len(markers) |-> markers[i].key]
  IN IF Len(markers) < 4 THEN [raised |-> FALSE, value |-> FALSE]
     ELSE IF keys = ExpectedSequence(Len(keys)) THEN [raised |-> FALSE, value |-> TRUE]
     ELSE IF \E i \in 1..Len(keys) : Len(keys[i]) # 1 THEN [raised |-> TRUE, value |-> FALSE]
     ELSE [raised |-> FALSE, value |-> LetterSpan(keys) >= 3]

\* _extract_subproblems: the subproblems emitted between the markers
RECURSIVE EmitSubproblems(_, _, _, _)
EmitSubproblems(markers, i, content, subproblems) ==
  IF i > Len(markers) THEN subproblems
  ELSE With(Strip(SubFrom(Cat(<<Str("\n"), Star(S), Eol>>), "", Strip(Slice(content, markers[i].end,
                                    IF i + 1 <= Len(markers) THEN markers[i + 1].start
                                    ELSE Len(content))), 0, {})),
            LAMBDA subproblem_content :
         With(IF _is_valid_subproblem_content(subproblem_content)
              THEN DictSet(subproblems, SubproblemEntry(markers[i].key, subproblem_content))
              ELSE subproblems,
              LAMBDA emitted : EmitSubproblems(markers, i + 1, content, emitted)))

\* _extract_subproblems: [raised, subproblems]
_extract_subproblems(content) ==
  With(SubproblemMarkers(content), LAMBDA subproblem_markers :
    With(_is_multiple_choice_sequence(subproblem_markers), LAMBDA multiple_choice :
      IF multiple_choice.raised THEN [raised |-> TRUE, subproblems |-> <<>>]
      ELSE IF multiple_choice.value THEN [raised |-> FALSE, subproblems |-> <<>>]
      ELSE With(IF Len(subproblem_markers) = 0 /\ _indicates_subproblems_expected(content)
                THEN _extract_text_based_subproblems(content)
                ELSE <<>>,
                LAMBDA text_subproblems :
             IF Len(text_subproblems) > 0
             THEN [raised |-> FALSE, subproblems |-> text_subproblems]
             ELSE [raised |-> FALSE,
                   subproblems |-> EmitSubproblems(subproblem_markers, 1, content, <<>>)])))

(***************************************************************************)
(* SubSpec: _extract_subproblems called on the content of a problem        *)
(***************************************************************************)
\* most markers a content carries
MaxMarkers == 5

MarkedParts == <<"a) lim x ", "b) x dx ", "c) x^2 ", "d) sqrt(4) ", "a) y=2 ", "ii) z+1 ", "(f) f(x) ">>

SubContents ==
  LET RECURSIVE PartsFrom(_, _)
      PartsFrom(k, chosen) ==
        IF k > Len(MarkedParts) THEN ""
        ELSE (IF k \in chosen THEN MarkedParts[k] ELSE "") \o PartsFrom(k + 1, chosen)
  IN
  {"Evaluate. " \o PartsFrom(1, chosen) :
     chosen \in {c \in SUBSET (1..Len(MarkedParts)) : Cardinality(c) <= MaxMarkers}}

SubInit ==
  /\ AtRest
  /\ fn_pc = "call"
  /\ fn_arg \in SubContents
  /\ fn_ret = <<>>

\* the call, with the local subproblem_markers kept beside what is returned
ExtractSubproblems ==
  /\ fn_pc = "call"
  /\ fn_ret' = [subproblem_markers |-> SubproblemMarkers(fn_arg),
                returned |-> _extract_subproblems(fn_arg)]
  /\ fn_pc' = "return"
  /\ UNCHANGED <<fn_arg, pipeline_vars>>

SubSpec == SubInit /\ [][ExtractSubproblems]_vars

\* the keys of the markers are a, b, c, ... from a on
KeysFromA(markers) == \A i \in 1..Len(markers) : markers[i].key = SubSeq(LowerAlphabet, i, i)

\* the keys are single characters and the codes of two of them differ by 3 or more
SpanAtLeast3(markers) ==
  /\ \A i \in 1..Len(markers) : Len(markers[i].key) = 1
  /\ \E i, j \in 1..Len(markers) : Ord(markers[i].key) - Ord(markers[j].key) >= 3

\* C8: when the accepted markers of a content, in position order, number four
\* or more and their keys are exactly a, b, c, d, ... from a on, or span three
\* letters or more, _extract_subproblems returns the empty map.
C8_MultipleChoiceRunEmitsNothing ==
  (/\ fn_pc = "return"
   /\ Len(fn_ret.subproblem_markers) >= 4
   /\ KeysFromA(fn_ret.subproblem_markers) \/ SpanAtLeast3(fn_ret.subproblem_markers))
  => (~fn_ret.returned.raised /\ fn_ret.returned.subproblems = <<>>)

\* the run a) b) c) d) was found and nothing was emitted
C8_Witness ==
  /\ fn_pc = "return"
  /\ Len(fn_ret.subproblem_markers) = 4
  /\ KeysFromA(fn_ret.subproblem_markers)
  /\ fn_ret.returned.subproblems = <<>>

(***************************************************************************)
(* Boundary detector: one page                                             *)
(***************************************************************************)
\* _is_valid_problem_content: math_indicators (lines 819-829)
problem_math_indicators == <<
  Cat(<<Wb, Grp(1, Alt(<<Str("derivative"), Str("integral"), Str("limit"), Str("function"), Str("equation"), Str("solve"), Str("find"), Str("calculate"), Str("compute")>>)), Wb>>),   \* \b(derivative|integral|limit|function|equation|solve|find|calculate|compute)\b
  Cat(<<Set(LowerLetters \cup UpperLetters), Str("("), Set(LowerLetters \cup UpperLetters), Str(")")>>),   \* [a-zA-Z]\([a-zA-Z]\)
  Cat(<<Plus(D), Star(S), Set({"+", "-", "*", "/"}), Star(S), Plus(D)>>),   \* [0-9]+\s*[+\-*/]\s*[0-9]+
  Cat(<<Set(LowerLetters \cup UpperLetters), Star(S), Str("="), Star(S), Plus(Set(LowerLetters \cup UpperLetters \cup Digits \cup {"+", "-", "*", "/", "(", ")"}))>>),   \* [a-zA-Z]\s*=\s*[a-zA-Z0-9+\-*/()]+
  Cat(<<Set(LowerLetters \cup UpperLetters), Str("^"), Plus(D)>>),   \* [a-zA-Z]\^[0-9]+
  Cat(<<Str("\\frac{"), LazyStar(Dot), Str("}{"), LazyStar(Dot), Str("}")>>),   \* \\frac\{.*?\}\{.*?\}
  Cat(<<Str("\\sqrt{"), LazyStar(Dot), Str("}")>>),   \* \\sqrt\{.*?\}
  Str("\\int"),   \* \\int
  Str("\\lim")   \* \\lim
>>

\* _is_valid_problem_content: word_problem_indicators (lines 850-859)
word_problem_indicators == <<
  Cat(<<Wb, Grp(1, Alt(<<Str("wishes"), Str("wants"), Str("needs"), Str("must"), Str("should"), Str("can"), Str("will")>>)), Wb>>),   \* \b(wishes|wants|needs|must|should|can|will)\b
  Cat(<<Wb, Grp(1, Alt(<<Str("area"), Str("perimeter"), Str("volume"), Str("surface"), Str("length"), Str("width"), Str("height"), Str("distance")>>)), Wb>>),   \* \b(area|perimeter|volume|surface|length|width|height|distance)\b
  Cat(<<Wb, Grp(1, Alt(<<Str("cost"), Str("price"), Str("money"), Cat(<<Str("dollar"), Opt(Str("s"))>>), Cat(<<Str("cent"), Opt(Str("s"))>>)>>)), Wb>>),   \* \b(cost|price|money|dollars?|cents?)\b
  Cat(<<Wb, Grp(1, Alt(<<Str("rate"), Str("speed"), Str("time"), Str("hour"), Str("minute"), Str("second")>>)), Wb>>),   \* \b(rate|speed|time|hour|minute|second)\b
  Cat(<<Wb, Grp(1, Alt(<<Str("percent"), Str("percentage"), Str("ratio"), Str("proportion")>>)), Wb>>),   \* \b(percent|percentage|ratio|proportion)\b
  Cat(<<Wb, Grp(1, Alt(<<Str("rectangle"), Str("square"), Str("circle"), Str("triangle"), Str("shape")>>)), Wb>>),   \* \b(rectangle|square|circle|triangle|shape)\b
  Cat(<<Wb, Grp(1, Alt(<<Str("fence"), Str("build"), Str("construct"), Str("create"), Str("make")>>)), Wb>>),   \* \b(fence|build|construct|create|make)\b
  Cat(<<Wb, Grp(1, Alt(<<Str("optimize"), Str("minimize"), Str("maximize"), Str("least"), Str("most")>>)), Wb>>)   \* \b(optimize|minimize|maximize|least|most)\b
>>

\* _is_valid_problem_content: latex_math (lines 867-872)
latex_math == <<
  Cat(<<Str("\\mathrm{"), LazyStar(Dot), Str("}")>>),   \* \\mathrm\{.*?\}
  Cat(<<Str("\\text{"), LazyStar(Dot), Str("}")>>),   \* \\text\{.*?\}
  Cat(<<Plus(D), Star(S), Str("\\mathrm{"), LazyStar(Dot), Str("}")>>),   \* [0-9]+\s*\\mathrm\{.*?\}
  Cat(<<Str("\\"), Plus(Set(LowerLetters \cup UpperLetters)), Str("{"), LazyStar(Dot), Str("}")>>)   \* \\[a-zA-Z]+\{.*?\}
>>

\* a content validator without the minimum length
ContentOfAnyLength(content) ==
  \/ AnyFound(problem_math_indicators, content, {"i"})
  \/ \E k \in 1..Len(problem_keywords) : ContainsLower(content, problem_keywords[k])
  \/ AnyFound(word_problem_indicators, content, {"i"})
  \/ AnyFound(latex_math, content, {"i"})

\* _is_valid_problem_content
_is_valid_problem_content(content) ==
  IF Len(Strip(content)) < 20 THEN FALSE
  ELSE \/ AnyFound(problem_math_indicators, content, {"i"})
       \/ \E k \in 1..Len(problem_keywords) : ContainsLower(content, problem_keywords[k])
       \/ AnyFound(word_problem_indicators, content, {"i"})
       \/ AnyFound(latex_math, content, {"i"})

\* _clean_orphaned_content: header_patterns (lines 722-727)
orphan_header_patterns == <<
  Cat(<<Str("Stanford Math"), Star(S), Str("Tournament"), Star(S), Str("Calculus"), Star(S), Str("April 13, 2024")>>),   \* Stanford Math\s*Tournament\s*Calculus\s*April 13, 2024
  Cat(<<Str("Stanford Math"), Star(S), Str("Tournament"), Star(S), Str("Calculus")>>),   \* Stanford Math\s*Tournament\s*Calculus
  Str("April 13, 2024"),   \* April 13, 2024
  Cat(<<Star(S), Str("Calculus"), Star(S)>>)   \* \s*Calculus\s*
>>

\* _clean_orphaned_content
_clean_orphaned_content(content) ==
  Strip(CollapseWhitespace(RemoveRange(orphan_header_patterns, 1, Len(orphan_header_patterns), content, {"i"})))

\* _extract_orphaned_content: first_problem_patterns (lines 692-696)
first_problem_patterns == <<
  Cat(<<Alt(<<Bol, Str("\n")>>), Star(S), Grp(1, Plus(D)), Str("."), S>>),   \* (?:^|\n)\s*(\d+)\.\s
  Cat(<<Alt(<<Bol, Str("\n")>>), Star(S), Str("Problem"), Plus(S), Grp(1, Plus(D))>>),   \* (?:^|\n)\s*Problem\s+(\d+)
  Cat(<<Grp(1, Plus(D)), Str("."), S>>)   \* (\d+)\.\s
>>

\* an orphan extraction that keeps the text before the first problem however
\* short it is
OrphanOfAnyLength(content) ==
  LET starts == {Search(first_problem_patterns[k], content, 0, {}).start :
                   k \in {j \in 1..Len(first_problem_patterns) :
                            Search(first_problem_patterns[j], content, 0, {}).ok}}
      first_problem_pos == IF starts = {} THEN Len(content)
                           ELSE CHOOSE a \in starts : \A b \in starts : a <= b
  IN IF first_problem_pos > 0
     THEN _clean_orphaned_content(Strip(Slice(content, 0, first_problem_pos)))
     ELSE ""

\* _extract_orphaned_content
_extract_orphaned_content(content) ==
  LET \* _extract_orphaned_content: first_problem_pos, the least start of a match
      RECURSIVE FirstProblemPos(_, _)
      FirstProblemPos(patterns, first_problem_pos) ==
        IF Len(patterns) = 0 THEN first_problem_pos
        ELSE With(Search(Head(patterns), content, 0, {}), LAMBDA match :
               FirstProblemPos(Tail(patterns), IF match.ok /\ match.start < first_problem_pos THEN match.start
                 ELSE first_problem_pos))
      \* the orphan text kept when first_problem_pos > 0
      OrphanedBefore(first_problem_pos) ==
        IF first_problem_pos > 0
        THEN With(_clean_orphaned_content(Strip(Slice(content, 0, first_problem_pos))), LAMBDA orphaned :
               IF Len(orphaned) > 20 THEN orphaned ELSE "")
        ELSE ""
  IN
  OrphanedBefore(FirstProblemPos(first_problem_patterns, Len(content)))

\* _parse_page_content: patterns (the dash class keeps its ASCII member)
problem_patterns == <<
  Cat(<<Alt(<<Bol, Str("\n")>>), Star(S), Grp(1, Plus(D)), Str("."), Star(S), Grp(2, LazyPlus(Dot)), Look(Alt(<<Cat(<<Alt(<<Bol, Str("\n")>>), Star(S), Plus(D), Str("."), S>>), Eos>>))>>),   \* (?:^|\n)\s*(\d+)\.\s*(.+?)(?=(?:^|\n)\s*\d+\.\s|\Z)
  Cat(<<Alt(<<Bol, Str("\n")>>), Star(S), Str("Problem"), Plus(S), Grp(1, Plus(D)), Opt(Set({":", "."})), Star(S), Grp(2, LazyPlus(Dot)), Look(Alt(<<Cat(<<Alt(<<Bol, Str("\n")>>), Star(S), Str("Problem"), Plus(S), Plus(D)>>), Eos>>))>>),   \* (?:^|\n)\s*Problem\s+(\d+)[:\.]?\s*(.+?)(?=(?:^|\n)\s*Problem\s+\d+|\Z)
  Cat(<<Opt(Cat(<<Bol, Plus(D), Plus(S)>>)), Grp(1, Plus(D)), Plus(S), Grp(2, Cat(<<Set(UpperLetters), Star(Set(LowerLetters)), LazyStar(Cat(<<Plus(S), Plus(Set(LowerLetters))>>))>>)), Plus(S), Grp(3, Alt(<<Cat(<<Set(LowerLetters), Str("."), Plus(S), Star(Dot)>>), Cat(<<Str("Let"), Plus(S), Star(Dot)>>)>>))>>),
  Cat(<<Grp(1, Plus(D)), Str("."), Star(S), Grp(2, LazyPlus(Dot)), Look(Alt(<<Cat(<<Plus(D), Str("."), S>>), Eos>>))>>),   \* (\d+)\.\s*(.+?)(?=\d+\.\s|\Z)
  Cat(<<Grp(1, Plus(D)), Str(")"), Star(S), Grp(2, LazyPlus(Dot)), Look(Alt(<<Cat(<<Plus(D), Str(")"), S>>), Eos>>))>>),   \* (\d+)\)\s*(.+?)(?=\d+\)\s|\Z)
  Cat(<<Grp(1, Plus(D)), Star(S), Set({"-"}), Star(S), Grp(2, LazyPlus(Dot)), Look(Alt(<<Cat(<<Plus(D), Star(S), Set({"-"})>>), Eos>>))>>)
>>

\* _parse_page_content: current_problems of one pattern
RECURSIVE CurrentProblems(_, _, _, _, _, _)
CurrentProblems(matches, lo, hi, content, page, pattern_idx) ==
  LET \* _parse_page_content: problem_content of one match
      ProblemContent(match) ==
        IF pattern_idx = 2
        THEN Strip(Strip(Group(match, content, 2)) \o "\n" \o Strip(Group(match, content, 3)))
        ELSE Strip(Group(match, content, 2))
      \* _parse_page_content: the problem built from one match, if it passes
      \* (full_text is written and never read)
      ProblemsOfMatch(problem_num, problem_content) ==
        IF ~_is_valid_problem_number(problem_num) THEN <<>>
        ELSE IF _is_valid_problem_content(problem_content)
        THEN <<[page |-> page, number |-> problem_num, content |-> problem_content]>>
        ELSE <<>>
  IN
  IF lo > hi THEN <<>>
  ELSE IF lo = hi
  THEN ProblemsOfMatch(ToInt(Group(matches[lo], content, 1)), ProblemContent(matches[lo]))
  ELSE CurrentProblems(matches, lo, (lo + hi) \div 2, content, page, pattern_idx)
       \o CurrentProblems(matches, (lo + hi) \div 2 + 1, hi, content, page, pattern_idx)

\* max(problem_numbers)
MaxNumber(problems) ==
  CHOOSE n \in {problems[k].number : k \in DOMAIN problems} :
    \A k \in DOMAIN problems : problems[k].number <= n

\* is_better as a comparison of the sizes alone
MoreCandidatesWin(current_problems, best_problems, page, pattern_idx, best_pattern_idx) ==
  Len(current_problems) > Len(best_problems)

\* _parse_page_content: is_better
IsBetter(current_problems, best_problems, page, pattern_idx, best_pattern_idx) ==
  IF Len(best_problems) = 0 THEN TRUE
  ELSE IF page = 1 /\ Len(current_problems) > 1 /\ Len(best_problems) = 1 THEN TRUE
  ELSE IF Len(current_problems) = 1 /\ Len(best_problems) > 1
       THEN MaxNumber(current_problems) >= page /\ page > 3
  ELSE IF Len(current_problems) > Len(best_problems) THEN TRUE
  ELSE IF Len(current_problems) = Len(best_problems) THEN pattern_idx < best_pattern_idx
  ELSE FALSE

\* the turn of the loop without the test of low numbers on a late page
ConsiderOnAnyPage(current_problems, best, page, pattern_idx) ==
  IF /\ Len(current_problems) > 0
     /\ _is_valid_problem_sequence([k \in DOMAIN current_problems |-> current_problems[k].number])
     /\ IsBetter(current_problems, best.problems, page, pattern_idx, best.pattern_idx)
  THEN [problems |-> current_problems, pattern_idx |-> pattern_idx]
  ELSE best

\* _parse_page_content: one turn of the loop over the patterns
ConsiderPattern(current_problems, best, page, pattern_idx) ==
  IF /\ Len(current_problems) > 0
     /\ _is_valid_problem_sequence([k \in DOMAIN current_problems |-> current_problems[k].number])
  THEN IF page >= 5 /\ MaxNumber(current_problems) < 5 /\ Len(current_problems) > 1 THEN best
       ELSE IF IsBetter(current_problems, best.problems, page, pattern_idx, best.pattern_idx)
            THEN [problems |-> current_problems, pattern_idx |-> pattern_idx]
            ELSE best
  ELSE best

\* _parse_page_content: the loop over the patterns
RECURSIVE BestProblems(_, _, _, _)
BestProblems(filtered_content, page, pattern_idx, best) ==
  IF pattern_idx >= Len(problem_patterns) THEN best.problems
  ELSE With(FindAll(problem_patterns[pattern_idx + 1], filtered_content, 0, {"i", "s", "m"}),
         LAMBDA matches :
           With(ConsiderPattern(CurrentProblems(matches, 1, Len(matches), filtered_content,
                                                page, pattern_idx),
                                best, page, pattern_idx),
             LAMBDA better : BestProblems(filtered_content, page, pattern_idx + 1, better)))

\* _parse_page_content: the problems returned and the orphan text recorded
\* under the page ("" records nothing)
_parse_page_content(content, page) ==
  With(_filter_page_content(content), LAMBDA filtered_content :
    IF Len(Strip(filtered_content)) = 0 THEN [problems |-> <<>>, orphaned_content |-> ""]
    ELSE [problems |-> BestProblems(filtered_content, page, 0,
                                    [problems |-> <<>>, pattern_idx |-> -1]),
          orphaned_content |-> IF page > 1 THEN _extract_orphaned_content(filtered_content)
                               ELSE ""])

(***************************************************************************)
(* Assembler: the statement of a problem                                   *)
(***************************************************************************)

\* _clean_problem_text
_clean_problem_text(content, subproblems) ==
  LET \* _clean_problem_text: pattern1, pattern2, pattern3 of one key
      KeyPatterns(subproblem_key) ==
        <<Cat(<<Grp(1, Alt(<<Bol, S>>)), Str(subproblem_key \o ")")>>),
          Cat(<<Grp(1, Alt(<<Bol, S>>)), Str(subproblem_key \o ".")>>),
          Cat(<<Grp(1, Alt(<<Bol, S>>)), Str("(" \o subproblem_key \o ")")>>)>>
      \* _clean_problem_text: marker_pos of the first pattern of the key that
      \* matches, or `otherwise` when none does
      RECURSIVE KeyMarkerPos(_, _, _, _)
      KeyMarkerPos(patterns, k, cleaned_text, otherwise) ==
        IF k > Len(patterns) THEN otherwise
        ELSE With(Search(patterns[k], cleaned_text, 0, {"i", "m"}), LAMBDA match :
               IF match.ok THEN match.start + Len(Group(match, cleaned_text, 1))
               ELSE KeyMarkerPos(patterns, k + 1, cleaned_text, otherwise))
      \* _clean_problem_text: first_marker_pos after the keys from index k on
      RECURSIVE FirstMarkerPos(_, _, _)
      FirstMarkerPos(k, cleaned_text, first_marker_pos) ==
        IF k > Len(subproblems) THEN first_marker_pos
        ELSE With(KeyMarkerPos(KeyPatterns(subproblems[k].key), 1, cleaned_text, first_marker_pos),
               LAMBDA marker_pos :
                 FirstMarkerPos(k + 1, cleaned_text, IF marker_pos < first_marker_pos THEN marker_pos ELSE first_marker_pos))
  IN
  IF Len(subproblems) = 0 THEN Strip(content)
  ELSE Strip(Slice(content, 0, FirstMarkerPos(1, content, Len(content))))

\* _remove_multiple_choice_options: patterns (lines 1646-1650)
mc_patterns == <<
  Cat(<<Grp(1, Set(LowerLetters \cup UpperLetters)), Str(")")>>),   \* ([a-zA-Z])\)
  Cat(<<Grp(1, Set(LowerLetters \cup UpperLetters)), Str(".")>>),   \* ([a-zA-Z])\.
  Cat(<<Str("("), Grp(1, Set(LowerLetters \cup UpperLetters)), Str(")")>>)   \* \(([a-zA-Z])\)
>>

\* the statement with its answer options left in place
KeepOptions(content) == content

\* _remove_multiple_choice_options
_remove_multiple_choice_options(content) ==
  LET \* _remove_multiple_choice_options: the matches of one pattern added to
      \* mc_markers
      RECURSIVE AddChoiceMarkers(_, _)
      AddChoiceMarkers(matches, mc_markers) ==
        IF Len(matches) = 0 THEN mc_markers
        ELSE LET match == Head(matches)
                 char_before == IF match.start > 0 THEN Ch(content, match.start - 1) ELSE "\n"
             IN AddChoiceMarkers(Tail(matches), IF InsideLatex(content, match.start) THEN mc_markers
                  ELSE IF char_before \in {"\n", " ", "\t", ".", "!", "?", ":"} \/ match.start = 0
                  THEN Append(mc_markers, [key |-> LowerStr(Group(match, content, 1)),
                                           start |-> match.start,
                                           marker_text |-> Slice(content, match.start, match.end)])
                  ELSE mc_markers)
      \* _remove_multiple_choice_options: mc_markers of the patterns from index k on
      RECURSIVE ScanChoicePatterns(_, _)
      ScanChoicePatterns(k, mc_markers) ==
        IF k > Len(mc_patterns) THEN mc_markers
        ELSE With(AddChoiceMarkers(FindAll(mc_patterns[k], content, 0, {"m"}), mc_markers),
               LAMBDA found : ScanChoicePatterns(k + 1, found))
      \* _remove_multiple_choice_options: is_sequential
      IsSequential(keys) ==
        IF keys = ExpectedSequence(Len(keys)) THEN TRUE ELSE LetterSpan(keys) >= 3
      \* _remove_multiple_choice_options, given the sorted mc_markers
      WithoutOptions(mc_markers) ==
        IF Len(mc_markers) >= 4 /\ IsSequential([i \in 1..Len(mc_markers) |-> mc_markers[i].key])
        THEN Strip(RStrip(Slice(content, 0, mc_markers[1].start), {" ", "\t", "\n", ":"}))
        ELSE content
  IN
  WithoutOptions(SortedBy(ScanChoicePatterns(1, <<>>), "start"))

(***************************************************************************)
(* Image association: one page                                             *)
(*                                                                         *)
(* A page is what the rasterizer, the OCR service and the PDF reader give  *)
(* for it:                                                                 *)
(*   status      the status code of the OCR response                       *)
(*   latex, text the fields of the response, None when the key is absent   *)
(*   images      the images of the response, None when the key is absent;  *)
(*               each has data: None when the key is absent, else          *)
(*               Some(TRUE) when it decodes and Some(FALSE) when not       *)
(*   width, height  the page rectangle                                     *)
(*   pdf_images  the images embedded in the page, each with its rects      *)
(*               [x0, x1, y0, width, height] and its pixmap's n and alpha  *)
(***************************************************************************)
\* _find_problem_boundaries: patterns (lines 308-311)
boundary_patterns == <<
  Cat(<<Grp(1, Plus(D)), Str(".")>>),   \* (\d+)\.
  Cat(<<Str("Problem"), Plus(S), Grp(1, Plus(D))>>)   \* Problem\s+(\d+)
>>

\* _find_problem_boundaries
_find_problem_boundaries(content) ==
  LET \* _find_problem_boundaries: the boundaries of the matches of one pattern
      BoundariesOf(matches) ==
        [k \in 1..Len(matches) |->
           [problem_num |-> ToInt(Group(matches[k], content, 1)),
            position |-> matches[k].start,
            match_text |-> Slice(content, matches[k].start, matches[k].end)]]
  IN
  SortedBy(BoundariesOf(FindAll(boundary_patterns[1], content, 0, {}))
                 \o BoundariesOf(FindAll(boundary_patterns[2], content, 0, {})), "position")

\* the text the page functions read: 'latex' if the key is there, else 'text'
PageContent(page_results) ==
  IF page_results.latex # None THEN page_results.latex[1]
  ELSE IF page_results.text # None THEN page_results.text[1]
  ELSE ""

\* _find_image_problem_association: image_indicators (lines 362-369)
image_indicators == <<
  Cat(<<Str("\\includegraphics{"), LazyStar(Dot), Str("}")>>),   \* \\includegraphics\{.*?\}
  Str("\\begin{figure}"),   \* \\begin\{figure\}
  Str("\\end{figure}"),   \* \\end\{figure\}
  Str("[image]"),   \* \[image\]
  Str("[figure]"),   \* \[figure\]
  Str("[graph]")   \* \[graph\]
>>

\* an association by the order of the images alone, whatever markers the
\* text has
AssociateByOrder(img_idx, page_results, problem_boundaries) ==
  IF Len(problem_boundaries) = 0 THEN None
  ELSE IF Len(PageContent(page_results)) = 0 THEN None
  ELSE IF Len(problem_boundaries) > 1 /\ img_idx = 0 THEN Some(problem_boundaries[1].problem_num)
  ELSE IF Len(problem_boundaries) > 1 /\ img_idx = 1 THEN Some(problem_boundaries[2].problem_num)
  ELSE Some(problem_boundaries[Len(problem_boundaries)].problem_num)

\* _find_image_problem_association
_find_image_problem_association(img_idx, page_results, problem_boundaries) ==
  LET \* _find_image_problem_association: image_positions, pattern by pattern
      RECURSIVE ImagePositions(_, _)
      ImagePositions(k, content) ==
        IF k > Len(image_indicators) THEN <<>>
        ELSE With(FindAll(image_indicators[k], content, 0, {"i"}), LAMBDA matches :
               [j \in 1..Len(matches) |-> matches[j].start] \o ImagePositions(k + 1, content))
      \* _find_image_problem_association: the walk over the boundaries for an
      \* image at image_pos
      RECURSIVE ProblemBefore(_, _)
      ProblemBefore(i, image_pos) ==
        IF problem_boundaries[i + 1].position > image_pos
        THEN IF i > 0 THEN Some(problem_boundaries[i].problem_num) ELSE None
        ELSE IF i = Len(problem_boundaries) - 1 THEN Some(problem_boundaries[i + 1].problem_num)
        ELSE ProblemBefore(i + 1, image_pos)
      \* _find_image_problem_association: the fallbacks by order
      OrderBasedAssociation ==
        IF Len(problem_boundaries) > 1 /\ img_idx = 0 THEN Some(problem_boundaries[1].problem_num)
        ELSE IF Len(problem_boundaries) > 1 /\ img_idx = 1 THEN Some(problem_boundaries[2].problem_num)
        ELSE Some(problem_boundaries[Len(problem_boundaries)].problem_num)
      \* _find_image_problem_association, given image_positions
      AssociationAt(image_positions) ==
        IF Len(image_positions) > 0 /\ img_idx < Len(image_positions)
        THEN ProblemBefore(0, image_positions[img_idx + 1])
        ELSE OrderBasedAssociation
  IN
  IF Len(problem_boundaries) = 0 THEN None
  ELSE IF Len(PageContent(page_results)) = 0 THEN None
  ELSE AssociationAt(ImagePositions(1, PageContent(page_results)))

\* _find_best_problem_for_image
_find_best_problem_for_image(page, problem_boundaries, img_idx) ==
  IF Len(problem_boundaries) = 1 THEN Some(problem_boundaries[1].problem_num)
  ELSE IF Len(problem_boundaries) > 1
  THEN IF page = 6 THEN Some(11)
       ELSE IF page = 7 THEN Some(15)
       ELSE Some(problem_boundaries[2].problem_num)
  ELSE None

\* _detect_subproblem_for_image
_detect_subproblem_for_image(page, problem_num, img_idx) == None

\* "if x:" for a number that may be None
Truthy(x) == x # None /\ x[1] # 0

\* _generate_problem_based_filename
_generate_problem_based_filename(associated_problem, img_num, page, subproblem) ==
  IF Truthy(associated_problem)
  THEN IF subproblem # None
       THEN "p" \o ToStr(associated_problem[1]) \o "_" \o ToStr(img_num) \o "_" \o subproblem[1] \o ".png"
       ELSE "p" \o ToStr(associated_problem[1]) \o "_" \o ToStr(img_num) \o ".png"
  ELSE "page_" \o ToStr(page) \o "_img_" \o ToStr(img_num) \o ".png"

\* _save_image_from_results: the filename, None when there is no 'data' or
\* decoding raises
_save_image_from_results(image_info, page, img_num, associated_problem, associated_subproblem) ==
  IF image_info.data = None THEN None
  ELSE IF ~image_info.data[1] THEN None
  ELSE Some(_generate_problem_based_filename(associated_problem, img_num, page, associated_subproblem))

\* _is_header_image
_is_header_image(page_results, img) ==
  LET \* _is_header_image: the two tests on one rect
      IsHeaderRect(rect, page_width, page_height) ==
        LET is_top_region == 10 * rect.y0 < page_height
            is_small_height == 100 * rect.height < 8 * page_height
            is_right_side == rect.x0 + rect.x1 > page_width
            is_rectangular == rect.height > 0 /\ 2 * rect.height < rect.width /\ rect.width < 4 * rect.height
            is_very_small == rect.height < 40 /\ rect.width < 120
        IN \/ is_top_region /\ is_small_height /\ is_right_side
           \/ is_top_region /\ is_rectangular /\ is_very_small /\ is_right_side
  IN
  \E k \in 1..Len(img.rects) : IsHeaderRect(img.rects[k], page_results.width, page_results.height)

\* _extract_images_from_pdf_page
_extract_images_from_pdf_page(page_results, page, problem_boundaries) ==
  LET \* _extract_images_from_pdf_page: the record of one embedded image, if it is
      \* saved
      PdfRecord(img, img_idx, associated_problem) ==
        IF _is_header_image(page_results, img) THEN <<>>
        ELSE IF img.n - img.alpha < 4
        THEN <<[filename |-> _generate_problem_based_filename(associated_problem, img_idx + 1, page,
                               IF Truthy(associated_problem)
                               THEN _detect_subproblem_for_image(page, associated_problem[1], img_idx)
                               ELSE None),
                page |-> page, source |-> "pdf_direct",
                associated_problem |-> associated_problem]>>
        ELSE <<>>
      \* _extract_images_from_pdf_page: the records of the embedded images from
      \* index img_idx on
      RECURSIVE PdfImages(_)
      PdfImages(img_idx) ==
        IF img_idx >= Len(page_results.pdf_images) THEN <<>>
        ELSE PdfRecord(page_results.pdf_images[img_idx + 1], img_idx, IF Len(problem_boundaries) > 0
                       THEN _find_best_problem_for_image(page, problem_boundaries, img_idx)
                       ELSE None)
             \o PdfImages(img_idx + 1)
  IN
  PdfImages(0)

\* _extract_from_page_results: the problems and images of the page, and the
\* orphan text _parse_page_content records under it ("" records nothing)
_extract_from_page_results(page_results, page) ==
  LET \* _extract_from_page_results: the record of one OCR-supplied image, if it
      \* is saved (full_path is the images directory joined with filename)
      MathpixRecord(image_info, img_idx, associated_problem) ==
        LET img_filename == _save_image_from_results(image_info, page, img_idx + 1, associated_problem,
                              IF Truthy(associated_problem)
                              THEN _detect_subproblem_for_image(page, associated_problem[1], img_idx)
                              ELSE None)
        IN IF img_filename # None
           THEN <<[filename |-> img_filename[1], page |-> page, source |-> "mathpix",
                   associated_problem |-> associated_problem]>>
           ELSE <<>>
      \* _extract_from_page_results: the records of the OCR-supplied images from
      \* index img_idx on
      RECURSIVE MathpixImages(_, _)
      MathpixImages(img_idx, problem_boundaries) ==
        IF img_idx >= Len(page_results.images[1]) THEN <<>>
        ELSE MathpixRecord(page_results.images[1][img_idx + 1], img_idx, _find_image_problem_association(img_idx, page_results, problem_boundaries))
             \o MathpixImages(img_idx + 1, problem_boundaries)
      \* _extract_from_page_results: images_saved
      ImagesSaved(problem_boundaries) ==
        (IF page_results.images # None /\ Len(problem_boundaries) > 0
         THEN MathpixImages(0, problem_boundaries)
         ELSE <<>>)
        \o _extract_images_from_pdf_page(page_results, page, problem_boundaries)
  IN
  With(IF Len(Strip(PageContent(page_results))) > 0
       THEN _parse_page_content(PageContent(page_results), page)
       ELSE [problems |-> <<>>, orphaned_content |-> ""],
    LAMBDA parsed :
      [problems |-> parsed.problems,
       images_saved |-> ImagesSaved(_find_problem_boundaries(PageContent(page_results))),
       orphaned_content |-> parsed.orphaned_content])

(***************************************************************************)
(* Page acquisition                                                        *)
(***************************************************************************)
\* _contains_problem_numbers: patterns (lines 191-195)
problem_number_patterns == <<
  Cat(<<Wb, Plus(D), Str("."), S>>),   \* \b\d+\.\s
  Cat(<<Str("Problem"), Plus(S), Plus(D)>>),   \* Problem\s+\d+
  Cat(<<Str("Question"), Plus(S), Plus(D)>>)   \* Question\s+\d+
>>

\* _has_math_content: math_symbols (the operator class keeps its ASCII members)
math_symbols == <<
  Set({"+", "-", "*", "/", "=", "<", ">"}),
  Cat(<<Set(LowerLetters \cup UpperLetters), Star(S), Set({"+", "-", "*", "/"}), Star(S), Set(LowerLetters \cup UpperLetters)>>),   \* [a-zA-Z]\s*[+\-*/]\s*[a-zA-Z]
  Cat(<<Plus(D), Star(S), Set({"+", "-", "*", "/"}), Star(S), Plus(D)>>),   \* [0-9]+\s*[+\-*/]\s*[0-9]+
  Cat(<<Set(LowerLetters \cup UpperLetters), Str("("), Set(LowerLetters \cup UpperLetters), Str(")")>>),   \* [a-zA-Z]\([a-zA-Z]\)
  Cat(<<Set(LowerLetters \cup UpperLetters), Str("^"), Plus(D)>>),   \* [a-zA-Z]\^[0-9]+
  Cat(<<Str("\\"), Plus(Set(LowerLetters \cup UpperLetters)), Str("{"), LazyStar(Dot), Str("}")>>)   \* \\[a-zA-Z]+\{.*?\}
>>

\* _contains_problem_numbers
_contains_problem_numbers(content) == AnyFound(problem_number_patterns, content, {})

\* _has_math_content
_has_math_content(content) ==
  IF Len(Strip(content)) < 50 THEN FALSE
  ELSE Cardinality({k \in 1..Len(math_symbols) : Search(math_symbols[k], content, 0, {}).ok}) >= 2

\* _process_single_page: the response when its status is 200, else None.  A
\* response is a non-empty object whatever keys it lacks.
_process_single_page(page_image) ==
  IF page_image.status = 200 THEN Some(page_image) ELSE None

\* _find_first_content_page: the loop over the first three pages, each
\* submitted to the OCR service in turn; [found, last], last the page the loop
\* stopped at
FirstContentSearch(page_images) ==
  LET \* _find_first_content_page: content of a response, 'text' before 'latex'
      TextOrLatex(page_results) ==
        IF page_results.text # None /\ Len(page_results.text[1]) > 0 THEN page_results.text[1]
        ELSE IF page_results.latex # None THEN page_results.latex[1]
        ELSE ""
      \* _find_first_content_page: the loop from page i on
      RECURSIVE FirstContentPageFrom(_)
      FirstContentPageFrom(i) ==
        IF i > Len(page_images) \/ i > 3 THEN [found |-> FALSE, last |-> i - 1]
        ELSE IF /\ _process_single_page(page_images[i]) # None
                /\ \/ _has_math_content(TextOrLatex(page_images[i]))
                   \/ _contains_problem_numbers(TextOrLatex(page_images[i]))
        THEN [found |-> TRUE, last |-> i]
        ELSE FirstContentPageFrom(i + 1)
  IN
  FirstContentPageFrom(1)

\* _find_first_content_page: the page found, page 1 when none is
_find_first_content_page(page_images) ==
  With(FirstContentSearch(page_images), LAMBDA search :
    IF search.found THEN search.last ELSE 1)

(***************************************************************************)
(* Assembler: reconciliation across pages                                  *)
(*                                                                         *)
(* A dict is the sequence of its items in insertion order.                 *)
(***************************************************************************)

\* an association that hands the orphan text to the first problem found on
\* its own page or after it
FirstProblemFromPage(all_problems_with_pages, k, page, last_problem_num) ==
  IF \E j \in 1..Len(all_problems_with_pages) : all_problems_with_pages[j].page >= page
  THEN Some(all_problems_with_pages[
              CHOOSE j \in 1..Len(all_problems_with_pages) :
                /\ all_problems_with_pages[j].page >= page
                /\ \A i \in 1..(j - 1) : all_problems_with_pages[i].page < page].number)
  ELSE None

\* _associate_orphaned_content_with_problems: last_problem_num for the page,
\* walking the sorted list from index k
RECURSIVE LastProblemBefore(_, _, _, _)
LastProblemBefore(all_problems_with_pages, k, page, last_problem_num) ==
  IF k > Len(all_problems_with_pages) THEN last_problem_num
  ELSE IF all_problems_with_pages[k].page < page
  THEN LastProblemBefore(all_problems_with_pages, k + 1, page,
                         Some(all_problems_with_pages[k].number))
  ELSE last_problem_num

\* _associate_orphaned_content_with_problems
_associate_orphaned_content_with_problems(by_number, orphaned) ==
  LET \* min(p['page'] for p in problem_parts)
      FirstPage(problem_parts) ==
        CHOOSE page \in {problem_parts[k].page : k \in DOMAIN problem_parts} :
          \A k \in DOMAIN problem_parts : page <= problem_parts[k].page
      \* _associate_orphaned_content_with_problems: all_problems_with_pages, sorted
      ProblemsWithPages ==
        SortedBy([g \in 1..Len(by_number) |->
                      [number |-> by_number[g].number, page |-> FirstPage(by_number[g].parts)]], "page")
      \* _associate_orphaned_content_with_problems: the orphaned_part appended to
      \* the parts of last_problem_num (full_text is written and never read)
      AttachOrphan(attached, orphan, last_problem_num) ==
        IF Truthy(last_problem_num)
        THEN [g \in 1..Len(attached) |->
                IF attached[g].number = last_problem_num[1]
                THEN [attached[g] EXCEPT !.parts =
                        Append(@, [page |-> orphan.page, number |-> last_problem_num[1],
                                   content |-> orphan.content, is_continuation |-> TRUE])]
                ELSE attached[g]]
        ELSE attached
      \* _associate_orphaned_content_with_problems: the loop over the orphans
      RECURSIVE AttachOrphans(_, _, _)
      AttachOrphans(attached, all_problems_with_pages, k) ==
        IF k > Len(orphaned) THEN attached
        ELSE AttachOrphans(AttachOrphan(attached, orphaned[k], LastProblemBefore(all_problems_with_pages, 1, orphaned[k].page, None)), all_problems_with_pages, k + 1)
  IN
  IF Len(orphaned) = 0 THEN by_number
  ELSE AttachOrphans(by_number, ProblemsWithPages, 1)

\* the content of the part of the earliest page alone
PrimaryContent(problem_parts) == SortedBy(problem_parts, "page")[1].content

\* _combine_page_results: combined_content
CombinedContent(problem_parts) ==
  LET \* "\n".join(part['content'] for part in parts)
      RECURSIVE JoinContents(_, _)
      JoinContents(parts, k) ==
        IF k > Len(parts) THEN ""
        ELSE IF k = Len(parts) THEN parts[k].content
        ELSE parts[k].content \o "\n" \o JoinContents(parts, k + 1)
  IN
  JoinContents(SortedBy(problem_parts, "page"), 1)

\* _find_problem_images
_find_problem_images(problem_num, problem_pages, images) ==
  LET \* _find_problem_images: for each image, the filename it adds to
      \* problem_images, if any
      ProblemImageChoices ==
        [k \in 1..Len(images) |->
           IF images[k].associated_problem = Some(problem_num) THEN <<images[k].filename>>
           ELSE IF /\ images[k].associated_problem = None
                   /\ \E j \in 1..Len(problem_pages) : problem_pages[j] = images[k].page
           THEN IF Cardinality({j \in 1..Len(problem_pages) : problem_pages[j] = images[k].page}) = 1
                THEN <<images[k].filename>>
                ELSE <<>>
           ELSE <<>>]
      \* the concatenation of a sequence of sequences
      RECURSIVE Flatten(_, _)
      Flatten(seqs, k) == IF k > Len(seqs) THEN <<>> ELSE seqs[k] \o Flatten(seqs, k + 1)
  IN
  Flatten(ProblemImageChoices, 1)

\* _determine_image_subproblem_association: image_keywords
subproblem_image_keywords == <<
  "shaded region", "graph", "figure", "diagram", "chart", "below", "above",
  "shown", "illustrated", "picture", "image", "plot", "curve", "line">>

\* _separate_solution_images: image_keywords
solution_image_keywords == <<
  "graph", "figure", "diagram", "chart", "below", "above",
  "shown", "illustrated", "picture", "image", "plot", "curve", "line",
  "shaded region", "shaded area">>

\* _determine_image_subproblem_association
_determine_image_subproblem_association(image_filename, main_problem_text, subproblems) ==
  LET \* _determine_image_subproblem_association: match_count of one subproblem
      MatchCount(subproblem_text) ==
        Cardinality({k \in 1..Len(subproblem_image_keywords) :
                       ContainsLower(subproblem_text, subproblem_image_keywords[k])})
      \* _determine_image_subproblem_association: best_match, the first subproblem
      \* with the largest positive match_count
      BestMatch ==
        IF \A k \in 1..Len(subproblems) : MatchCount(subproblems[k].problem_text) = 0 THEN None
        ELSE Some(subproblems[CHOOSE k \in 1..Len(subproblems) :
                                /\ \A j \in 1..Len(subproblems) :
                                     MatchCount(subproblems[j].problem_text)
                                       <= MatchCount(subproblems[k].problem_text)
                                /\ \A j \in 1..(k - 1) :
                                     MatchCount(subproblems[j].problem_text)
                                       < MatchCount(subproblems[k].problem_text)].key)
      \* _determine_image_subproblem_association: the key named by the filename
      FilenameKey(filename_match) ==
        IF /\ filename_match.ok
           /\ \E k \in 1..Len(subproblems) : subproblems[k].key = Group(filename_match, image_filename, 1)
        THEN Some(Group(filename_match, image_filename, 1))
        ELSE None
  IN
  With(FilenameKey(Search(Cat(<<Str("p"), Plus(D), Str("_"), Grp(1, Set(LowerLetters)), Str("_"),
                                  Plus(D), Str(".png")>>), image_filename, 0, {})),
    LAMBDA subproblem_key :
      IF subproblem_key # None THEN subproblem_key
      ELSE IF Len(Strip(main_problem_text)) = 0 /\ Len(subproblems) = 1
      THEN Some(subproblems[1].key)
      ELSE BestMatch)

\* _distribute_images_to_subproblems
_distribute_images_to_subproblems(main_problem_text, subproblems, images) ==
  LET \* the members of xs at the indices where keep holds
      RECURSIVE SelectAt(_, _, _)
      SelectAt(xs, keep, k) ==
        IF k > Len(xs) THEN <<>>
        ELSE (IF keep[k] THEN <<xs[k]>> ELSE <<>>) \o SelectAt(xs, keep, k + 1)
      \* _distribute_images_to_subproblems, given the association of each image:
      \* [main_images, subproblems]
      Distributed(associated) ==
        [main_images |-> SelectAt(images, [k \in 1..Len(images) |-> associated[k] = None], 1),
         subproblems |->
           [j \in 1..Len(subproblems) |->
              [subproblems[j] EXCEPT !.images =
                 @ \o SelectAt(images, [k \in 1..Len(images) |->
                                          associated[k] = Some(subproblems[j].key)], 1)]]]
  IN
  Distributed([k \in 1..Len(images) |->
       _determine_image_subproblem_association(images[k], main_problem_text, subproblems)])

\* every image moved to the solution
MoveAllToSolution(problem_text, solution_text, images) ==
  [solution_images |-> images, main_images |-> <<>>]

\* _separate_solution_images: [solution_images, main_images]
_separate_solution_images(problem_text, solution_text, images) ==
  LET \* any(keyword in text.lower() for keyword in image_keywords)
      MentionsImage(text) ==
        \E k \in 1..Len(solution_image_keywords) : ContainsLower(text, solution_image_keywords[k])
  IN
  IF ~MentionsImage(problem_text) /\ MentionsImage(solution_text)
  THEN [solution_images |-> images, main_images |-> <<>>]
  ELSE [solution_images |-> <<>>, main_images |-> images]

\* convert_pdf: the id_prefix the conversion is called with
id_prefix == "exam"

\* _combine_page_results: one turn of the loop over the problem numbers,
\* [raised, problem]; final_problem without the fields that are constants of
\* the format
CombineProblem(problem_num, problem_parts, images) ==
  With(CombinedContent(problem_parts), LAMBDA combined_content :
    With(_extract_subproblems(combined_content), LAMBDA extracted :
      IF extracted.raised THEN [raised |-> TRUE, problem |-> <<>>]
      ELSE
        With(_remove_multiple_choice_options(
               _clean_problem_text(combined_content, extracted.subproblems)),
          LAMBDA cleaned_problem_text :
        With(_extract_solution(cleaned_problem_text), LAMBDA split :
        With(_distribute_images_to_subproblems(split.problem_text, extracted.subproblems,
               _find_problem_images(problem_num,
                 [k \in 1..Len(problem_parts) |-> problem_parts[k].page], images)),
          LAMBDA distributed :
        With(IF split.solution # None /\ Len(distributed.main_images) > 0
             THEN _separate_solution_images(cleaned_problem_text, split.solution[1],
                                            distributed.main_images)
             ELSE [solution_images |-> <<>>, main_images |-> distributed.main_images],
          LAMBDA separated :
            [raised |-> FALSE,
             problem |->
               [id |-> id_prefix \o "_p" \o ToStr(problem_num),
                doc_id |-> id_prefix,
                problem_text |-> _clean_text(split.problem_text),
                subproblems |-> distributed.subproblems,
                solution |-> IF split.solution # None
                             THEN Some([text |-> _clean_text(split.solution[1]),
                                        images |-> separated.solution_images])
                             ELSE None,
                images |-> separated.main_images]]))))))

\* _combine_page_results: problems_by_number as the loop sees it, and
\* [raised, combined_problems] of the loop over sorted(problems_by_number.keys())
_combine_page_results(problems, images, orphaned) ==
  LET \* _combine_page_results: problems_by_number, grouped in order of first
      \* appearance
      RECURSIVE GroupByNumber(_, _, _)
      GroupByNumber(all, k, grouped) ==
        IF k > Len(all) THEN grouped
        ELSE GroupByNumber(all, k + 1, IF \E g \in 1..Len(grouped) : grouped[g].number = all[k].number
               THEN [g \in 1..Len(grouped) |->
                       IF grouped[g].number = all[k].number
                       THEN [grouped[g] EXCEPT !.parts = Append(@, all[k])]
                       ELSE grouped[g]]
               ELSE Append(grouped, [number |-> all[k].number, parts |-> <<all[k]>>]))
      \* problems_by_number[problem_num]
      PartsOf(by_number, problem_num) ==
        by_number[CHOOSE g \in 1..Len(by_number) : by_number[g].number = problem_num].parts
  IN
  With(_associate_orphaned_content_with_problems(GroupByNumber(problems, 1, <<>>), orphaned),
    LAMBDA by_number :
      With(Sorted([g \in 1..Len(by_number) |-> by_number[g].number]), LAMBDA numbers :
        With([k \in 1..Len(numbers) |->
                CombineProblem(numbers[k], PartsOf(by_number, numbers[k]), images)],
          LAMBDA finals :
            [problems_by_number |-> by_number,
             result |->
               IF \E k \in 1..Len(finals) : finals[k].raised
               THEN [raised |-> TRUE, combined_problems |-> <<>>]
               ELSE [raised |-> FALSE,
                     combined_problems |-> [k \in 1..Len(finals) |-> finals[k].problem]]])))

(***************************************************************************)
(* Spec: convert_pdf, one document through the pipeline                    *)
(***************************************************************************)
\* most pages of a document put together from the page pool
MaxPages == 2

\* a picture in the body of a page, and one in the band of its header
Graph == [rects |-> <<[x0 |-> 100, x1 |-> 400, y0 |-> 300, width |-> 300, height |-> 200]>>,
          n |-> 3, alpha |-> 0]
Logo == [rects |-> <<[x0 |-> 450, x1 |-> 550, y0 |-> 20, width |-> 100, height |-> 30]>>,
         n |-> 3, alpha |-> 0]

\* a page of text: answered with status 200, text under 'latex', no pictures
TextPage(latex) ==
  [status |-> 200, latex |-> Some(latex), text |-> None, images |-> None,
   width |-> 600, height |-> 800, pdf_images |-> <<>>]

\* the pages of the three text scenarios
PageA == TextPage("1. Find the derivative of x^2.\n2. Solve x+3=7.")
PageB == TextPage("3. Evaluate.\na) lim x->0 sin(x)/x\nb) integral of x dx\nc) d/dx(x^2)\nd) sqrt(4)")
PageC1 == TextPage("1. Find f'(x) where f(x)=x^3.")
PageC2 == TextPage("which equals 3x^2.\n2. Solve for x: 2x=10.")

\* a page that opens with the end of the previous problem, then has problem
\* 2 and a number out of range; two OCR-supplied images, one without data,
\* and an embedded picture
OrphanPage ==
  [TextPage("and therefore the limit equals zero here. 2. Solve for x: 2x=10 now. 60. Find y = 3 here.")
     EXCEPT !.images = Some(<<[data |-> Some(TRUE)], [data |-> None]>>),
            !.pdf_images = <<Graph>>]

\* a page with two problems numbered "1)" and "2)", text under 'text' only,
\* a logo in the header band and a picture in the body
ImagePage ==
  [status |-> 200, latex |-> None,
   text |-> Some("1) Find the value of x + 1 = y 2) Compute the integral of f(x) = x"),
   images |-> Some(<<[data |-> Some(TRUE)]>>),
   width |-> 600, height |-> 800, pdf_images |-> <<Logo, Graph>>]

\* a page the OCR service does not answer
FailedPage ==
  [status |-> 500, latex |-> None, text |-> None, images |-> None,
   width |-> 600, height |-> 800, pdf_images |-> <<Graph>>]

\* pages with one problem and one picture in the body: the statement names
\* the graph below (scenario E), it does so and a solution follows, and only
\* the solution names a graph
PicturePages ==
  [e |-> [TextPage("1. Use the graph below to find f(2) now.")
            EXCEPT !.pdf_images = <<Graph>>],
   e_solved |-> [TextPage("1. Use the graph below to find f(2) now. Solution: It is f(2) = 4 there.")
                   EXCEPT !.pdf_images = <<Graph>>],
   solution_graph |-> [TextPage("5. Compute the sum 2 + 2 now. Solution: It is 4 as the graph shows.")
                         EXCEPT !.pdf_images = <<Graph>>]]

\* a page whose problem has four parts marked with roman numerals
RomanPage == TextPage("6. Do all: i) x + 1 = 2 ii) y = 3 + 4 iii) z = 1 + 1 iv) w = 2 + 2")

PagePool == {PageB, PageC1, OrphanPage, ImagePage, FailedPage}

\* the documents converted: none of whose pages could be rasterized, the
\* scenarios, the pages with a picture, the page with roman numerals alone
\* and after a failed page, a problem on pages 1 and 3 with orphan text on
\* page 2, a problem with parts a) and b) whose first marker follows a colon
\* after a blank and at once, and every sequence of pool pages up to MaxPages
Documents ==
  {<<>>, <<PageA>>, <<PageB>>, <<PageC1, PageC2>>}
    \cup {<<PicturePages[name]>> : name \in DOMAIN PicturePages}
    \cup {<<RomanPage>>, <<FailedPage, RomanPage>>}
    \cup {<<PageC1, OrphanPage, PageC1>>}
    \cup {<<TextPage("4. Evaluate each: a) x + 1 = 2 b) y = 3 + 4")>>,
          <<TextPage("4. Evaluate each:a) x + 1 = 2 b) y = 3 + 4")>>}
    \cup {pages \in SeqsUpTo(PagePool, MaxPages) : Len(pages) > 0}

Init ==
  /\ AtRest
  /\ fn_pc = "rest"
  /\ fn_arg = <<>>
  /\ fn_ret = <<>>

\* convert_pdf going on to the loop whatever _pdf_to_images returns
ConvertEmptyToo ==
  /\ pc = "rest"
  /\ \E pdf \in Documents :
       /\ doc' = pdf
       /\ pc' = "pages"
       /\ start_page' = _find_first_content_page(pdf)
       /\ ocr_calls' = [k \in 1..FirstContentSearch(pdf).last |-> k]
       /\ page_num' = 1
       /\ all_problems' = <<>>
       /\ all_images' = <<>>
  /\ UNCHANGED <<orphaned_content_by_page, problems_by_number, combined_problems, fn_vars>>

\* convert_pdf up to the loop over the pages; no page image: returns None
ConvertPdf ==
  /\ pc = "rest"
  /\ \E pdf \in Documents :
       /\ doc' = pdf
       /\ IF Len(pdf) = 0
          THEN /\ pc' = "returned_none"
               /\ UNCHANGED <<start_page, page_num, all_problems, all_images, ocr_calls>>
          ELSE /\ pc' = "pages"
               /\ start_page' = _find_first_content_page(pdf)
               /\ ocr_calls' = [k \in 1..FirstContentSearch(pdf).last |-> k]
               /\ page_num' = 1
               /\ all_problems' = <<>>
               /\ all_images' = <<>>
  /\ UNCHANGED <<orphaned_content_by_page, problems_by_number, combined_problems, fn_vars>>

\* one turn of the loop over the pages that submits a page the OCR service
\* fails on a second time
ProcessPageWithRetry ==
  LET RecordOrphan(orphaned, page, orphaned_content) ==
        IF \E k \in 1..Len(orphaned) : orphaned[k].page = page
        THEN [k \in 1..Len(orphaned) |->
                IF orphaned[k].page = page THEN [orphaned[k] EXCEPT !.content = orphaned_content]
                ELSE orphaned[k]]
        ELSE Append(orphaned, [page |-> page, content |-> orphaned_content])
  IN
  /\ pc = "pages"
  /\ page_num <= Len(doc)
  /\ IF page_num < start_page \/ _process_single_page(doc[page_num]) = None
     THEN UNCHANGED <<all_problems, all_images, orphaned_content_by_page>>
     ELSE \E extracted \in {_extract_from_page_results(doc[page_num], page_num)} :
            /\ all_problems' = all_problems \o extracted.problems
            /\ all_images' = all_images \o extracted.images_saved
            /\ orphaned_content_by_page' =
                 IF extracted.orphaned_content # ""
                 THEN RecordOrphan(orphaned_content_by_page, page_num, extracted.orphaned_content)
                 ELSE orphaned_content_by_page
  /\ ocr_calls' = IF page_num < start_page THEN ocr_calls
                  ELSE IF _process_single_page(doc[page_num]) = None
                  THEN ocr_calls \o <<page_num, page_num>>
                  ELSE Append(ocr_calls, page_num)
  /\ page_num' = page_num + 1
  /\ UNCHANGED <<pc, doc, start_page, problems_by_number, combined_problems, fn_vars>>

\* convert_pdf: one turn of the loop over the pages
ProcessPage ==
  LET \* self.orphaned_content_by_page[page_num] = orphaned_content
      RecordOrphan(orphaned, page, orphaned_content) ==
        IF \E k \in 1..Len(orphaned) : orphaned[k].page = page
        THEN [k \in 1..Len(orphaned) |->
                IF orphaned[k].page = page THEN [orphaned[k] EXCEPT !.content = orphaned_content]
                ELSE orphaned[k]]
        ELSE Append(orphaned, [page |-> page, content |-> orphaned_content])
  IN
  /\ pc = "pages"
  /\ page_num <= Len(doc)
  /\ IF page_num < start_page \/ _process_single_page(doc[page_num]) = None
     THEN UNCHANGED <<all_problems, all_images, orphaned_content_by_page>>
     ELSE \E extracted \in {_extract_from_page_results(doc[page_num], page_num)} :
            /\ all_problems' = all_problems \o extracted.problems
            /\ all_images' = all_images \o extracted.images_saved
            /\ orphaned_content_by_page' =
                 IF extracted.orphaned_content # ""
                 THEN RecordOrphan(orphaned_content_by_page, page_num, extracted.orphaned_content)
                 ELSE orphaned_content_by_page
  /\ ocr_calls' = IF page_num < start_page THEN ocr_calls ELSE Append(ocr_calls, page_num)
  /\ page_num' = page_num + 1
  /\ UNCHANGED <<pc, doc, start_page, problems_by_number, combined_problems, fn_vars>>

\* convert_pdf after the loop: _combine_page_results, then the JSON is
\* written; an exception of the assembly leaves convert_pdf
CombinePageResults ==
  /\ pc = "pages"
  /\ page_num > Len(doc)
  /\ \E combined \in {_combine_page_results(all_problems, all_images, orphaned_content_by_page)} :
       /\ problems_by_number' = combined.problems_by_number
       /\ combined_problems' = combined.result.combined_problems
       /\ pc' = IF combined.result.raised THEN "raised" ELSE "done"
  /\ UNCHANGED <<doc, page_num, start_page, all_problems, all_images,
                 orphaned_content_by_page, ocr_calls, fn_vars>>

Next == ConvertPdf \/ ProcessPage \/ CombinePageResults

Spec == Init /\ [][Next]_vars

(***************************************************************************)
(* AgainSpec: convert_pdf called a second time on the converter that has   *)
(* converted a document.  The locals of the first call are gone; the       *)
(* attributes of the converter are what the first call left.  fn_pc =      *)
(* "again" marks the second call.                                          *)
(***************************************************************************)
\* the second call of convert_pdf, up to the loop over the pages
ConvertPdfAgain ==
  /\ pc \in {"done", "raised", "returned_none"}
  /\ fn_pc = "rest"
  /\ fn_pc' = "again"
  /\ \E pdf \in {<<>>, <<PageB>>, <<PageC1>>, <<PageC1, OrphanPage>>} :
       /\ doc' = pdf
       /\ IF Len(pdf) = 0
          THEN /\ pc' = "returned_none"
               /\ start_page' = 1
               /\ page_num' = 0
               /\ ocr_calls' = <<>>
          ELSE /\ pc' = "pages"
               /\ start_page' = _find_first_content_page(pdf)
               /\ ocr_calls' = [k \in 1..FirstContentSearch(pdf).last |-> k]
               /\ page_num' = 1
  /\ all_problems' = <<>>
  /\ all_images' = <<>>
  /\ problems_by_number' = <<>>
  /\ combined_problems' = <<>>
  /\ UNCHANGED <<orphaned_content_by_page, fn_arg, fn_ret>>

AgainSpec == Init /\ [][Next \/ ConvertPdfAgain]_vars


(***************************************************************************)
(* Properties of Spec: the scenarios                                       *)
(***************************************************************************)
\* the number in the id of an emitted problem
NumberOf(problem) == ToInt(SubSeq(problem.id, Len(id_prefix) + 3, Len(problem.id)))

\* the members of a sequence
Members(xs) == {xs[k] : k \in 1..Len(xs)}

\* the image filenames of a solution entry
SolutionImages(solution) == IF solution = None THEN {} ELSE Members(solution[1].images)

\* every image filename listed under an emitted problem: its own images,
\* those of its solution, those of its subproblems and of their solutions
ImagesOf(problem) ==
  Members(problem.images) \cup SolutionImages(problem.solution)
    \cup UNION {Members(problem.subproblems[j].images)
                  \cup SolutionImages(problem.subproblems[j].solution) :
                j \in 1..Len(problem.subproblems)}

\* the parts grouped under a problem number after reconciliation
GroupOf(number) ==
  problems_by_number[CHOOSE g \in 1..Len(problems_by_number) :
                       problems_by_number[g].number = number]

\* a part that was attached from the orphan text of a page
IsContinuation(part) == "is_continuation" \in DOMAIN part

\* C2 as stated: the page of scenario A yields two problems, #1 "Find the
\* derivative of x^2." and #2 "Solve x+3=7.", without subproblems or images,
\* and "Solve x+3=7." passes the content validator.
C2_ScenarioATwoProblems ==
  (pc = "done" /\ doc = <<PageA>>) =>
    /\ Len(combined_problems) = 2
    /\ NumberOf(combined_problems[1]) = 1
    /\ combined_problems[1].problem_text = "Find the derivative of x^2."
    /\ NumberOf(combined_problems[2]) = 2
    /\ combined_problems[2].problem_text = "Solve x+3=7."
    /\ \A k \in 1..2 : /\ combined_problems[k].subproblems = <<>>
                       /\ ImagesOf(combined_problems[k]) = {}
    /\ _is_valid_problem_content("Solve x+3=7.")

\* C2: the page of scenario A yields exactly one problem, #1, whose statement
\* is the whole text after the first number, "Find the derivative of x^2. 2.
\* Solve x+3=7.", with no subproblems, no solution and no images; the
\* 12-character content "Solve x+3=7." fails the content validator.
C2_ScenarioAOneProblem ==
  (pc = "done" /\ doc = <<PageA>>) =>
    /\ Len(combined_problems) = 1
    /\ NumberOf(combined_problems[1]) = 1
    /\ combined_problems[1].problem_text = "Find the derivative of x^2. 2. Solve x+3=7."
    /\ combined_problems[1].subproblems = <<>>
    /\ combined_problems[1].solution = None
    /\ ImagesOf(combined_problems[1]) = {}
    /\ ~_is_valid_problem_content("Solve x+3=7.")

\* scenario A was converted and a problem came out of it
C2_Witness ==
  /\ pc = "done"
  /\ doc = <<PageA>>
  /\ Len(combined_problems) > 0

\* C3 as stated: in scenario C the leading fragment of page 2 is recorded as
\* orphan content, is a part of problem 1 after reconciliation, and problem
\* 2 keeps its statement.
C3_ScenarioCOrphanAttached ==
  (pc = "done" /\ doc = <<PageC1, PageC2>>) =>
    /\ \E k \in 1..Len(orphaned_content_by_page) : orphaned_content_by_page[k].page = 2
    /\ \E j \in 1..Len(GroupOf(1).parts) :
         IsContinuation(GroupOf(1).parts[j]) /\ GroupOf(1).parts[j].page = 2
    /\ \E i \in 1..Len(combined_problems) :
         /\ NumberOf(combined_problems[i]) = 2
         /\ combined_problems[i].problem_text = "Solve for x: 2x=10."

\* C3: in scenario C the leading fragment of page 2 is not longer than 20
\* characters and is not recorded as orphan content; problem 1 keeps the
\* single part of page 1 and the statement "Find f'(x) where f(x)=x^3.",
\* and problem 2 has the statement "Solve for x: 2x=10.".
C3_ScenarioCNoOrphan ==
  (pc = "done" /\ doc = <<PageC1, PageC2>>) =>
    /\ orphaned_content_by_page = <<>>
    /\ Len(combined_problems) = 2
    /\ NumberOf(combined_problems[1]) = 1
    /\ combined_problems[1].problem_text = "Find f'(x) where f(x)=x^3."
    /\ Len(GroupOf(1).parts) = 1
    /\ GroupOf(1).parts[1].page = 1
    /\ NumberOf(combined_problems[2]) = 2
    /\ combined_problems[2].problem_text = "Solve for x: 2x=10."

\* scenario C was converted and both problems came out of it
C3_Witness ==
  /\ pc = "done"
  /\ doc = <<PageC1, PageC2>>
  /\ Len(combined_problems) = 2


(***************************************************************************)
(* Properties of Spec: images and the problems they are listed under       *)
(***************************************************************************)
\* the numbers of the problems parsed on a page
ProblemsOnPage(page) ==
  {all_problems[k].number : k \in {j \in 1..Len(all_problems) : all_problems[j].page = page}}

\* C4: in the final output no image filename is in the image lists (main,
\* subproblem or solution) of two different problems.
C4_NoImageUnderTwoProblems ==
  pc = "done" =>
    \A i, j \in 1..Len(combined_problems) :
      i # j => ImagesOf(combined_problems[i]) \cap ImagesOf(combined_problems[j]) = {}

\* C5: an image record with no associated problem is listed under a problem
\* exactly when that problem is the only one on the page of the image; with
\* two problems or more on the page, or none, it is listed under no problem.
C5_UnassociatedImageOnlyWithSoleProblem ==
  pc = "done" =>
    \A k \in 1..Len(all_images) :
      all_images[k].associated_problem = None =>
        \A i \in 1..Len(combined_problems) :
          (all_images[k].filename \in ImagesOf(combined_problems[i]))
            <=> (ProblemsOnPage(all_images[k].page) = {NumberOf(combined_problems[i])})

(***************************************************************************)
(* Properties of Spec: reconciliation of orphan text                       *)
(***************************************************************************)
\* the place in all_problems where a problem number is first seen; the pages
\* of all_problems never decrease, so this is its earliest page too
FirstSeen(number) ==
  CHOOSE k \in 1..Len(all_problems) :
    /\ all_problems[k].number = number
    /\ \A j \in 1..(k - 1) : all_problems[j].number # number

\* the problems whose earliest page is strictly before the page
EarlierProblems(page) ==
  {all_problems[k].number : k \in {j \in 1..Len(all_problems) : all_problems[j].page < page}}

\* the last of them in the order of their earliest pages, problems of one
\* page in the order they were found
LastEarlierProblem(page) ==
  CHOOSE n \in EarlierProblems(page) :
    \A m \in EarlierProblems(page) :
      \/ all_problems[FirstSeen(m)].page < all_problems[FirstSeen(n)].page
      \/ /\ all_problems[FirstSeen(m)].page = all_problems[FirstSeen(n)].page
         /\ FirstSeen(m) <= FirstSeen(n)

\* the group has a part attached from the orphan text of the page
HasContinuationFrom(group, orphan) ==
  \E j \in 1..Len(group.parts) :
    /\ IsContinuation(group.parts[j])
    /\ group.parts[j].page = orphan.page
    /\ group.parts[j].content = orphan.content

\* a later page recorded the same orphan text, and that page has an earlier
\* problem to attach it to
SameTextAttached(orphan) ==
  \E k \in 1..Len(orphaned_content_by_page) :
    /\ orphaned_content_by_page[k].page # orphan.page
    /\ orphaned_content_by_page[k].content = orphan.content
    /\ EarlierProblems(orphaned_content_by_page[k].page) # {}

\* C6: the orphan text recorded for page p is attached to exactly one
\* problem, the last in first-page order among those whose earliest page is
\* strictly less than p; when there is none it is attached to no problem and
\* no emitted statement contains it (unless another page recorded the very
\* same text and that page's orphan was attached).  Every attached part is
\* the orphan text of its page.
C6_OrphanGoesToLastEarlierProblem ==
  pc \in {"done", "raised"} =>
    /\ \A k \in 1..Len(orphaned_content_by_page) :
         \A g \in 1..Len(problems_by_number) :
           HasContinuationFrom(problems_by_number[g], orphaned_content_by_page[k])
             <=> /\ EarlierProblems(orphaned_content_by_page[k].page) # {}
                 /\ problems_by_number[g].number
                      = LastEarlierProblem(orphaned_content_by_page[k].page)
    /\ \A k \in 1..Len(orphaned_content_by_page) :
         EarlierProblems(orphaned_content_by_page[k].page) = {} =>
           \/ SameTextAttached(orphaned_content_by_page[k])
           \/ \A i \in 1..Len(combined_problems) :
                Count(combined_problems[i].problem_text, orphaned_content_by_page[k].content) = 0
    /\ \A g \in 1..Len(problems_by_number) :
         \A j \in 1..Len(problems_by_number[g].parts) :
           IsContinuation(problems_by_number[g].parts[j]) =>
             \E k \in 1..Len(orphaned_content_by_page) :
               /\ orphaned_content_by_page[k].page = problems_by_number[g].parts[j].page
               /\ orphaned_content_by_page[k].content = problems_by_number[g].parts[j].content

\* an orphan text was attached to the later of two problems found on an
\* earlier page
C6_Witness ==
  /\ pc = "done"
  /\ \E k \in 1..Len(orphaned_content_by_page) :
       /\ Cardinality(EarlierProblems(orphaned_content_by_page[k].page)) >= 2
       /\ \E g \in 1..Len(problems_by_number) :
            HasContinuationFrom(problems_by_number[g], orphaned_content_by_page[k])

(***************************************************************************)
(* Properties of Spec: images between the statement and the solution       *)
(***************************************************************************)
\* the text has a word of the visual-reference vocabulary
MentionsVisual(text) ==
  \E k \in 1..Len(solution_image_keywords) : ContainsLower(text, solution_image_keywords[k])

\* C17: for an emitted problem with a solution and an image of its own, when
\* the solution text has a word of the visual-reference vocabulary and the
\* statement has none, the images are in the solution's list and the main
\* list is empty.
C17_ImagesMovedToSolution ==
  pc = "done" =>
    \A i \in 1..Len(combined_problems) :
      (/\ combined_problems[i].solution # None
       /\ Members(combined_problems[i].images)
            \cup SolutionImages(combined_problems[i].solution) # {}
       /\ MentionsVisual(combined_problems[i].solution[1].text)
       /\ ~MentionsVisual(combined_problems[i].problem_text))
      => /\ combined_problems[i].images = <<>>
         /\ SolutionImages(combined_problems[i].solution) # {}

\* C18: scenario E.  A document of one page with one problem, no subproblems,
\* one image associated with the problem, and "graph below" in the statement:
\* the image is the problem's one main image and the solution, when there is
\* one, lists no image.
C18_ScenarioEImageStaysWithStatement ==
  (/\ pc = "done"
   /\ Len(doc) = 1
   /\ Len(combined_problems) = 1
   /\ Len(all_images) = 1)
  => LET problem == combined_problems[1]
     IN (/\ all_images[1].associated_problem = Some(NumberOf(problem))
         /\ problem.subproblems = <<>>
         /\ ContainsLower(problem.problem_text, "graph below"))
        => /\ problem.images = <<all_images[1].filename>>
           /\ SolutionImages(problem.solution) = {}

\* scenario E with a solution after the statement was converted: the image is
\* with the statement
C18_Witness ==
  /\ pc = "done"
  /\ doc = <<PicturePages.e_solved>>
  /\ Len(combined_problems) = 1
  /\ combined_problems[1].solution # None
  /\ combined_problems[1].images = <<"p1_1.png">>
  /\ ContainsLower(combined_problems[1].problem_text, "graph below")

(***************************************************************************)
(* Properties of Spec: a page the OCR service fails on                     *)
(***************************************************************************)
\* the pages of the document the OCR call fails on
FailedPages == {k \in 1..Len(doc) : doc[k].status # 200}

\* nothing recorded comes from a failed page
NothingFromFailedPages ==
  \A k \in FailedPages :
    /\ \A i \in 1..Len(all_problems) : all_problems[i].page # k
    /\ \A i \in 1..Len(all_images) : all_images[i].page # k
    /\ \A i \in 1..Len(orphaned_content_by_page) : orphaned_content_by_page[i].page # k

\* once the loop over the pages is over, every answered page from start_page
\* on has given its problems and its images
EveryAnsweredPageProcessed ==
  (pc = "pages" /\ page_num > Len(doc)) \/ pc \in {"done", "raised"} =>
    \A k \in (1..Len(doc)) \ FailedPages :
      k >= start_page =>
        /\ SelectSeq(all_problems, LAMBDA problem : problem.page = k)
             = _extract_from_page_results(doc[k], k).problems
        /\ SelectSeq(all_images, LAMBDA image : image.page = k)
             = _extract_from_page_results(doc[k], k).images_saved

\* C19: when the OCR call fails for a page of the document, the page gives no
\* problem, no image and no orphan text, the pages after it are processed,
\* and the conversion ends with the document written, never with an
\* exception.
C19_FailedPageNeverStopsTheRun ==
  FailedPages # {} =>
    /\ NothingFromFailedPages
    /\ EveryAnsweredPageProcessed
    /\ pc # "raised"

\* what holds of a failed page: it gives nothing and the other pages are
\* processed
C19_FailedPageGivesNothing ==
  FailedPages # {} => (NothingFromFailedPages /\ EveryAnsweredPageProcessed)

(***************************************************************************)
(* Properties of Spec: a document with no page image                       *)
(***************************************************************************)
\* C20: when _pdf_to_images gives no page image, convert_pdf returns None at
\* once: no page is submitted to the OCR service, nothing is collected or
\* reconciled, no document is written, and nothing more happens.
C20_NoPageImageReturnsNone ==
  (pc # "rest" /\ doc = <<>>) =>
    /\ pc = "returned_none"
    /\ ocr_calls = <<>>
    /\ all_problems = <<>> /\ all_images = <<>> /\ orphaned_content_by_page = <<>>
    /\ problems_by_number = <<>> /\ combined_problems = <<>>
    /\ ~ENABLED Next

\* convert_pdf has returned None
C20_Witness == pc = "returned_none" /\ doc = <<>>

(***************************************************************************)
(* Properties of Spec: answer options                                      *)
(***************************************************************************)
\* the content up to the first marker, trailing whitespace and colons trimmed
CutAtFirstMarker(content, markers) ==
  Strip(RStrip(Slice(content, 0, markers[1].start), {" ", "\t", "\n", ":"}))

\* the markers of the content are exactly a), b), c), d) and the problem
\* emitted under the number has no subproblems and the cut statement
OptionsRemoved(number, content, markers) ==
  (/\ Len(markers) = 4
   /\ KeysFromA(markers)
   /\ \A k \in 1..4 : markers[k].marker_text = markers[k].key \o ")"
                      \/ markers[k].marker_text = " " \o markers[k].key \o ")"
                      \/ markers[k].marker_text = "\n" \o markers[k].key \o ")")
  => \E i \in 1..Len(combined_problems) :
       /\ NumberOf(combined_problems[i]) = number
       /\ combined_problems[i].subproblems = <<>>
       /\ combined_problems[i].problem_text = CutAtFirstMarker(content, markers)

\* C9: when the content of a problem carries the four sequential markers a),
\* b), c), d), the emitted problem has no subproblems and its statement is
\* the content cut at the first marker, trailing whitespace and colons
\* trimmed; scenario B yields the statement "Evaluate.".
C9_FourOptionMarkersCutStatement ==
  pc = "done" =>
    /\ \A g \in 1..Len(problems_by_number) :
         With(CombinedContent(problems_by_number[g].parts), LAMBDA content :
           OptionsRemoved(problems_by_number[g].number, content, SubproblemMarkers(content)))
    /\ doc = <<PageB>> =>
         /\ Len(combined_problems) = 1
         /\ combined_problems[1].subproblems = <<>>
         /\ combined_problems[1].problem_text = "Evaluate."

\* scenario B was converted: four markers in its content, "Evaluate." emitted
C9_Witness ==
  /\ pc = "done"
  /\ doc = <<PageB>>
  /\ Len(problems_by_number) = 1
  /\ Len(SubproblemMarkers(CombinedContent(problems_by_number[1].parts))) = 4
  /\ combined_problems[1].problem_text = "Evaluate."


(***************************************************************************)
(* ParseSpec: _parse_page_content called on the text of one page           *)
(***************************************************************************)
\* most items a page text is put together from
MaxItems == 2

\* numbered items, with numbers inside and outside the range of a problem
\* number
PageItems == {"7. Solve x + 3 = 7 fast. ",
              "60) Find the area of it all. ",
              "0. Find x = 1 + y right now. ",
              "Problem 100: Evaluate x^2 + 1 for x = 2. "}

\* page texts where the patterns disagree: a "Problem 7" with two low-numbered
\* items inside, two items followed by a "9)" or by a "2)", two low-numbered
\* items alone
SelectionPages ==
  {"Problem 7: Solve x + 3 = 7 fast. 1. Find x = 1 + y right now. 2. Find y = 2 + x right now. ",
   "5. Solve x + 3 = 7 fast.\n6. Find y = 2 + x right now. 9) Evaluate x^2 + 1 for x = 2. ",
   "5. Solve x + 3 = 7 fast. 6. Find y = 2 + x right now. 2) Evaluate x^2 + 1 for x = 2. ",
   "1. Solve x + 3 = 7 fast.\n2. Find y = 2 + x right now. "}

ParseInit ==
  /\ AtRest
  /\ fn_pc = "call"
  /\ fn_arg \in [content : {Concat(items) : items \in SeqsUpTo(PageItems, MaxItems)}
                             \cup SelectionPages,
                 page : {1, 4, 6}]
  /\ fn_ret = <<>>

\* _parse_page_content: the locals of one turn of the loop over the patterns,
\* problem_num of every match and current_problems
PatternTrace(filtered_content, page, pattern_idx) ==
  With(FindAll(problem_patterns[pattern_idx + 1], filtered_content, 0, {"i", "s", "m"}),
    LAMBDA matches :
      [problem_nums |-> [k \in 1..Len(matches) |-> ToInt(Group(matches[k], filtered_content, 1))],
       current_problems |-> CurrentProblems(matches, 1, Len(matches), filtered_content,
                                            page, pattern_idx)])

\* the call, with the locals of each pattern kept beside what is returned:
\* problem_num and current_problems, and best_problems with best_pattern_idx
\* as they stand after the pattern's turn of the loop
ParsePage ==
  /\ fn_pc = "call"
  /\ fn_ret' =
       With(With(_filter_page_content(fn_arg.content), LAMBDA filtered_content :
                   [i \in 1..Len(problem_patterns) |->
                      PatternTrace(filtered_content, fn_arg.page, i - 1)]),
            LAMBDA patterns :
              LET best[i \in 0..Len(patterns)] ==
                    IF i = 0 THEN [problems |-> <<>>, pattern_idx |-> -1]
                    ELSE ConsiderPattern(patterns[i].current_problems, best[i - 1],
                                         fn_arg.page, i - 1)
              IN [patterns |-> patterns,
                  best |-> [i \in 1..Len(patterns) |-> best[i]],
                  returned |-> _parse_page_content(fn_arg.content, fn_arg.page)])
  /\ fn_pc' = "return"
  /\ UNCHANGED <<fn_arg, pipeline_vars>>

ParseSpec == ParseInit /\ [][ParsePage]_vars

\* C10: every problem returned by _parse_page_content has a number n with
\* 1 <= n <= 50, and so has every candidate in the current_problems of every
\* pattern, which is what the sequence validator is given.
C10_CandidateNumbersInRange ==
  fn_pc = "return" =>
    /\ \A k \in 1..Len(fn_ret.returned.problems) :
         fn_ret.returned.problems[k].number \in 1..50
    /\ \A i \in 1..Len(fn_ret.patterns) :
         \A k \in 1..Len(fn_ret.patterns[i].current_problems) :
           fn_ret.patterns[i].current_problems[k].number \in 1..50

\* a page where a pattern matched a number outside the range and a problem
\* was returned all the same
C10_Witness ==
  /\ fn_pc = "return"
  /\ \E i \in 1..Len(fn_ret.patterns) :
       \E k \in 1..Len(fn_ret.patterns[i].problem_nums) :
         fn_ret.patterns[i].problem_nums[k] \notin 1..50
  /\ Len(fn_ret.returned.problems) > 0

(***************************************************************************)
(* CallSpec: the helpers of the pipeline called on their own, one call     *)
(* with its arguments drawn from a pool                                    *)
(***************************************************************************)
\* the numbers 0..NumberRange are tried as problem numbers, with the numbers
\* the validator names
NumberRange == 60

\* most pieces a content given to _extract_solution is put together from
MaxSolutionPieces == 3

\* most images a problem is given to distribute
MaxImages == 2

\* most pieces a page text given to _find_image_problem_association is put
\* together from
MaxFigurePieces == 3

\* the arguments of the calls
CallArgs ==
  LET \* _is_valid_problem_number: what int(match.group(1)) gives for a match
      \* of \d+
      NumberArgs ==
        [fn : {"_is_valid_problem_number"},
         problem_num : (0..NumberRange) \cup {100, 1000, 10000}]
      \* _extract_solution: statements, markers in several spellings, a word
      \* that ends like a marker, and white space
      SolutionPieces ==
        {"Find x? ", "Compute y. ", "Solution: ", "ANSWER :", "Sol.", "Resolution: x = 2", "\n"}
      SolutionArgs ==
        [fn : {"_extract_solution"},
         content : {Concat(pieces) : pieces \in SeqsUpTo(SolutionPieces, MaxSolutionPieces)}]
      \* _is_header_image: one embedded picture of a page 600 wide and 800
      \* high, at the left or the right, inside and outside the top tenth,
      \* lower and higher than 8% of the page, narrow and wide
      HeaderArgs ==
        [fn : {"_is_header_image"},
         page_results : {[width |-> 600, height |-> 800]},
         img : {[rects |-> <<[x0 |-> x0, x1 |-> x0 + width, y0 |-> y0,
                              width |-> width, height |-> height]>>] :
                  x0 \in {50, 350}, width \in {100, 200},
                  y0 \in {20, 79, 80, 300}, height \in {30, 63, 64, 200}}]
      \* _distribute_images_to_subproblems: a problem 6 with subproblem a,
      \* or a and b, some naming a graph; images named as the filename
      \* generator names the image of a subproblem, in the order the
      \* association reads, and with no subproblem in the name
      Subproblem(key, problem_text) ==
        [key |-> key, problem_text |-> problem_text, solution |-> None, images |-> <<>>]
      SubproblemTexts == {"Find x.", "Use the graph shown."}
      DistributeArgs ==
        [fn : {"_distribute_images_to_subproblems"},
         main_problem_text : {"", "Evaluate."},
         subproblems : {<<Subproblem("a", t)>> : t \in SubproblemTexts}
                       \cup {<<Subproblem("a", t), Subproblem("b", u)>> :
                               t \in SubproblemTexts, u \in SubproblemTexts},
         all_images : SeqsUpTo({_generate_problem_based_filename(Some(6), 1, 2, Some("a")),
                                _generate_problem_based_filename(Some(6), 1, 2, Some("b")),
                                "p6_b_1.png",
                                _generate_problem_based_filename(Some(6), 1, 2, None)},
                               MaxImages)]
      \* _find_image_problem_association: the first three images of a page
      \* whose text has problems 1 and 2 and figure markers in any order, with
      \* the boundaries _extract_from_page_results passes
      FigurePieces == {"1. Find x. ", "2. Find y. ", "[graph] ", "[Image] "}
      AssociationArgs ==
        {[fn |-> "_find_image_problem_association", img_idx |-> img_idx,
          page_results |-> TextPage(Concat(pieces)),
          problem_boundaries |-> _find_problem_boundaries(Concat(pieces))] :
           img_idx \in 0..2, pieces \in SeqsUpTo(FigurePieces, MaxFigurePieces)}
  IN NumberArgs \cup SolutionArgs \cup HeaderArgs \cup DistributeArgs \cup AssociationArgs

CallInit ==
  /\ AtRest
  /\ fn_pc = "call"
  /\ fn_arg \in CallArgs
  /\ fn_ret = <<>>

CallValidNumber ==
  /\ fn_pc = "call"
  /\ fn_arg.fn = "_is_valid_problem_number"
  /\ fn_ret' = _is_valid_problem_number(fn_arg.problem_num)
  /\ fn_pc' = "return"
  /\ UNCHANGED <<fn_arg, pipeline_vars>>

CallExtractSolution ==
  /\ fn_pc = "call"
  /\ fn_arg.fn = "_extract_solution"
  /\ fn_ret' = _extract_solution(fn_arg.content)
  /\ fn_pc' = "return"
  /\ UNCHANGED <<fn_arg, pipeline_vars>>

CallIsHeaderImage ==
  /\ fn_pc = "call"
  /\ fn_arg.fn = "_is_header_image"
  /\ fn_ret' = _is_header_image(fn_arg.page_results, fn_arg.img)
  /\ fn_pc' = "return"
  /\ UNCHANGED <<fn_arg, pipeline_vars>>

CallDistributeImages ==
  /\ fn_pc = "call"
  /\ fn_arg.fn = "_distribute_images_to_subproblems"
  /\ fn_ret' = _distribute_images_to_subproblems(fn_arg.main_problem_text, fn_arg.subproblems,
                                                  fn_arg.all_images)
  /\ fn_pc' = "return"
  /\ UNCHANGED <<fn_arg, pipeline_vars>>

CallImageAssociation ==
  /\ fn_pc = "call"
  /\ fn_arg.fn = "_find_image_problem_association"
  /\ fn_ret' = _find_image_problem_association(fn_arg.img_idx, fn_arg.page_results,
                                                fn_arg.problem_boundaries)
  /\ fn_pc' = "return"
  /\ UNCHANGED <<fn_arg, pipeline_vars>>

CallNext ==
  \/ CallValidNumber
  \/ CallExtractSolution
  \/ CallIsHeaderImage
  \/ CallDistributeImages
  \/ CallImageAssociation

CallSpec == CallInit /\ [][CallNext]_vars

\* the call of the named helper has returned
Returned(fn) == fn_pc = "return" /\ fn_arg.fn = fn

(***************************************************************************)
(* Properties of CallSpec: the problem-number check                        *)
(***************************************************************************)
\* C11 as stated: the check rejects 0 and every round power of ten, 10
\* included.
C11_RejectsZeroAndPowersOfTen ==
  Returned("_is_valid_problem_number") =>
    (fn_arg.problem_num \in {0, 10, 100, 1000, 10000} => fn_ret = FALSE)

\* C11: the check rejects 0, 100, 1000 and 10000, and it accepts 10, which is
\* a problem number like the others from 1 to 50.
C11_RejectsZeroAndRoundHundreds ==
  Returned("_is_valid_problem_number") =>
    /\ fn_arg.problem_num \in {0, 100, 1000, 10000} => fn_ret = FALSE
    /\ fn_arg.problem_num = 10 => fn_ret = TRUE

\* the check has turned down 100
C11_Witness ==
  /\ Returned("_is_valid_problem_number")
  /\ fn_arg.problem_num = 100
  /\ fn_ret = FALSE

(***************************************************************************)
(* Properties of ParseSpec: the choice among the patterns                  *)
(***************************************************************************)
\* best_problems and best_pattern_idx before the turn of pattern i (1-based)
BestBefore(i) ==
  IF i = 1 THEN [problems |-> <<>>, pattern_idx |-> -1] ELSE fn_ret.best[i - 1]

\* more than one candidate, and every number below 5
SuspiciouslyLow(current_problems) ==
  /\ Len(current_problems) > 1
  /\ \A k \in 1..Len(current_problems) : current_problems[k].number < 5

\* C12: on a page numbered 5 or later, a pattern's candidate set with more
\* than one candidate and its largest number below 5 does not replace the
\* best set found so far and is not what the page returns.
C12_LowNumbersOnLatePageNeverChosen ==
  (fn_pc = "return" /\ fn_arg.page >= 5) =>
    \A i \in 1..Len(fn_ret.patterns) :
      SuspiciouslyLow(fn_ret.patterns[i].current_problems) =>
        /\ fn_ret.best[i] = BestBefore(i)
        /\ fn_ret.returned.problems # fn_ret.patterns[i].current_problems

\* on page 6 a pattern found two low-numbered candidates after another
\* pattern had given a best set, and the page returned problems
C12_Witness ==
  /\ fn_pc = "return"
  /\ fn_arg.page = 6
  /\ \E i \in 2..Len(fn_ret.patterns) :
       /\ SuspiciouslyLow(fn_ret.patterns[i].current_problems)
       /\ Len(fn_ret.best[i - 1].problems) > 0
  /\ Len(fn_ret.returned.problems) > 0

\* the candidate set of pattern i went on to the comparison: it is not
\* empty, its numbers pass the sequence check, and it is not one of the
\* low-numbered sets of a late page
Validated(i) ==
  /\ Len(fn_ret.patterns[i].current_problems) > 0
  /\ _is_valid_problem_sequence([k \in 1..Len(fn_ret.patterns[i].current_problems) |->
                                   fn_ret.patterns[i].current_problems[k].number])
  /\ ~(fn_arg.page >= 5 /\ SuspiciouslyLow(fn_ret.patterns[i].current_problems))

\* the stated preferences between a new set and the best set so far
Wins(new, old, page, new_idx, old_idx) ==
  CASE Len(old) = 0 -> TRUE
    [] Len(old) > 0 /\ page = 1 /\ Len(new) > 1 /\ Len(old) = 1 -> TRUE
    [] Len(old) > 1 /\ Len(new) = 1 -> new[1].number >= page /\ page > 3
    [] OTHER -> \/ Len(new) > Len(old)
                \/ Len(new) = Len(old) /\ new_idx < old_idx

\* C13: a validated candidate set replaces the best set so far exactly when
\* the stated preferences say it wins (any set beats none; on page 1 several
\* beat one; one candidate numbered at least the page, past page 3, beats
\* several, and one never replaces several otherwise; else the larger set
\* wins, and on equal sizes the earlier pattern's set stays); a set that is
\* not validated replaces nothing; the page returns the last best set.
C13_SelectionFollowsPreferences ==
  fn_pc = "return" =>
    /\ \A i \in 1..Len(fn_ret.patterns) :
         fn_ret.best[i] =
           IF /\ Validated(i)
              /\ Wins(fn_ret.patterns[i].current_problems, BestBefore(i).problems,
                      fn_arg.page, i - 1, BestBefore(i).pattern_idx)
           THEN [problems |-> fn_ret.patterns[i].current_problems, pattern_idx |-> i - 1]
           ELSE BestBefore(i)
    /\ \A i \in 2..Len(fn_ret.patterns) :
         fn_ret.best[i].pattern_idx >= fn_ret.best[i - 1].pattern_idx
    /\ fn_ret.returned.problems = fn_ret.best[Len(fn_ret.best)].problems

\* past page 3, a single candidate numbered at least the page replaced a set
\* of several candidates
C13_Witness ==
  /\ fn_pc = "return"
  /\ fn_arg.page > 3
  /\ \E i \in 2..Len(fn_ret.patterns) :
       /\ Len(fn_ret.best[i - 1].problems) > 1
       /\ Len(fn_ret.best[i].problems) = 1
       /\ fn_ret.best[i].pattern_idx = i - 1
       /\ fn_ret.best[i].problems[1].number >= fn_arg.page
  /\ Len(fn_ret.returned.problems) = 1

(***************************************************************************)
(* Properties of CallSpec: the split of a content into statement and       *)
(* solution                                                                *)
(***************************************************************************)
\* the character is a letter, a digit or an underscore
IsWordCharacter(c) == IndexIn(c, LowerAlphabet \o UpperAlphabet \o DigitString \o "_") > 0

\* white space from offset a up to offset b of the content
BlankBetween(content, a, b) == \A k \in a..(b - 1) : Ch(content, k) \in Whitespace

\* the offsets right after the punctuation of a solution marker that starts
\* at offset p: "Solution", "Answer" or "Sol" in any case, at the start of a
\* word, followed by a colon or a period, or "Solution" or "Answer" followed
\* by white space and a colon
MarkerEnds(content, p) ==
  IF p > 0 /\ IsWordCharacter(Ch(content, p - 1)) THEN {}
  ELSE UNION {
         IF ~StrAt(word, content, p, TRUE) THEN {}
         ELSE {p + Len(word) + 1 : x \in {Ch(content, p + Len(word))} \cap {":", "."}}
              \cup (IF word = "sol" THEN {}
                    ELSE {e + 1 : e \in {k \in (p + Len(word))..(Len(content) - 1) :
                                           /\ BlankBetween(content, p + Len(word), k)
                                           /\ Ch(content, k) = ":"}})
         : word \in {"solution", "answer", "sol"}}

\* the offsets where a solution marker starts
MarkerStarts(content) == {p \in 0..Len(content) : MarkerEnds(content, p) # {}}

\* the smallest of them
EarliestMarker(content) ==
  CHOOSE p \in MarkerStarts(content) : \A q \in MarkerStarts(content) : p <= q

\* C14: with a marker in the content, the statement is the text before the
\* earliest marker, stripped, with trailing spaces, periods and colons removed
\* (a question mark at its end stays), and the solution is the text after
\* that marker, stripped, or None when nothing but white space follows; with
\* no marker the statement is the content unchanged and the solution is None.
C14_SplitAtEarliestMarker ==
  Returned("_extract_solution") =>
    IF MarkerStarts(fn_arg.content) = {}
    THEN fn_ret = [problem_text |-> fn_arg.content, solution |-> None]
    ELSE LET before == Strip(Slice(fn_arg.content, 0, EarliestMarker(fn_arg.content)))
         IN /\ fn_ret.problem_text = RStrip(before, {" ", ".", ":"})
            /\ (Len(before) > 0 /\ Ch(before, Len(before) - 1) = "?")
                 => fn_ret.problem_text = before
            /\ \A e \in MarkerEnds(fn_arg.content, EarliestMarker(fn_arg.content)) :
                 LET after == Strip(Slice(fn_arg.content, e, Len(fn_arg.content)))
                 IN fn_ret.solution = IF after = "" THEN None ELSE Some(after)

\* a content with a "Sol." before a "Solution:" was split at the "Sol.", the
\* statement keeping its question mark
C14_Witness ==
  /\ Returned("_extract_solution")
  /\ fn_arg.content = "Find x? Sol.Solution: "
  /\ fn_ret = [problem_text |-> "Find x?", solution |-> Some("Solution:")]

\* a content whose marker is followed by nothing was given no solution
C14_WitnessNoSolution ==
  /\ Returned("_extract_solution")
  /\ MarkerStarts(fn_arg.content) # {}
  /\ fn_ret.solution = None

(***************************************************************************)
(* Properties of CallSpec: header pictures                                 *)
(***************************************************************************)
\* the rect starts in the top tenth of the page
InTopBand(rect, page) == 10 * rect.y0 < page.height

\* the rect is lower than 8% of the height of the page
IsShort(rect, page) == 100 * rect.height < 8 * page.height

\* the middle of the rect is to the right of the middle of the page
IsRightOfCenter(rect, page) == rect.x0 + rect.x1 > page.width

\* the rect is small, and between two and four times as wide as it is high
IsSmallWide(rect) ==
  /\ rect.height < 40 /\ rect.width < 120
  /\ 2 * rect.height < rect.width /\ rect.width < 4 * rect.height

\* C15: a picture in the top tenth of the page is a header when it is lower
\* than 8% of the page height or right of the center (either one suffices),
\* or when it is small and wide; a picture outside the top tenth is never a
\* header.
C15_HeaderWhenTopAndShortOrRight ==
  Returned("_is_header_image") =>
    LET rect == fn_arg.img.rects[1]
    IN /\ (InTopBand(rect, fn_arg.page_results)
           /\ (\/ IsShort(rect, fn_arg.page_results)
               \/ IsRightOfCenter(rect, fn_arg.page_results)
               \/ IsSmallWide(rect))) => fn_ret = TRUE
       /\ ~InTopBand(rect, fn_arg.page_results) => fn_ret = FALSE

\* what the code does: a header is a picture in the top tenth that is both
\* lower than 8% of the page height and right of the center
C15_HeaderIffTopShortAndRight ==
  Returned("_is_header_image") =>
    LET rect == fn_arg.img.rects[1]
    IN fn_ret = (/\ InTopBand(rect, fn_arg.page_results)
                 /\ IsShort(rect, fn_arg.page_results)
                 /\ IsRightOfCenter(rect, fn_arg.page_results))

(***************************************************************************)
(* Properties of CallSpec: images named after a subproblem                 *)
(***************************************************************************)
\* the filename follows p{problem}_{imgIndex}_{subproblemKey}.png for the key
NamedAfter(image_filename, key) ==
  \E problem \in 1..50 : \E img_index \in 1..MaxImages :
    image_filename = "p" \o ToStr(problem) \o "_" \o ToStr(img_index) \o "_" \o key \o ".png"

\* C16: an image whose filename follows p{problem}_{imgIndex}_{key}.png, with
\* the key among the subproblems, is in the images of that subproblem and not
\* in the main images, whatever the texts say.
C16_ConventionNameGoesToItsSubproblem ==
  Returned("_distribute_images_to_subproblems") =>
    \A k \in 1..Len(fn_arg.all_images) : \A j \in 1..Len(fn_arg.subproblems) :
      NamedAfter(fn_arg.all_images[k], fn_arg.subproblems[j].key) =>
        /\ fn_arg.all_images[k] \in Members(fn_ret.subproblems[j].images)
        /\ fn_arg.all_images[k] \notin Members(fn_ret.main_images)

\* what the code does: the name it reads the key from is
\* p{problem}_{key}_{index}.png
C16_KeyReadBeforeIndex ==
  Returned("_distribute_images_to_subproblems") =>
    \A k \in 1..Len(fn_arg.all_images) : \A j \in 1..Len(fn_arg.subproblems) :
      fn_arg.all_images[k] = "p6_" \o fn_arg.subproblems[j].key \o "_1.png" =>
        /\ fn_arg.all_images[k] \in Members(fn_ret.subproblems[j].images)
        /\ fn_arg.all_images[k] \notin Members(fn_ret.main_images)


(***************************************************************************)
(* Properties of Spec: images associated with a problem number             *)
(***************************************************************************)
\* the emitted problems with the number num
EmittedWithNumber(num) ==
  {i \in 1..Len(combined_problems) : NumberOf(combined_problems[i]) = num}

\* C21: every image record associated with a problem number when its page was
\* read has its filename in the image lists (main, subproblem or solution) of
\* an emitted problem with that number.
C21_AssociatedImageIsListed ==
  pc = "done" =>
    \A k \in 1..Len(all_images) :
      all_images[k].associated_problem # None =>
        \E i \in EmittedWithNumber(all_images[k].associated_problem[1]) :
          all_images[k].filename \in ImagesOf(combined_problems[i])


(***************************************************************************)
(* Properties of SubSpec: the order of the subproblems map                 *)
(***************************************************************************)
\* the keys of a map, in insertion order
KeysOf(items) == [j \in 1..Len(items) |-> items[j].key]

\* a key before another in alphabetical order, as strings compare
KeyBefore(a, b) ==
  \E n \in 0..Len(a) :
    /\ n <= Len(b)
    /\ SubSeq(a, 1, n) = SubSeq(b, 1, n)
    /\ IF n = Len(a) THEN n < Len(b)
       ELSE n < Len(b) /\ Ord(Ch(a, n)) < Ord(Ch(b, n))

\* a sequence of keys in ascending alphabetical order
Ascending(keys) ==
  \A i, j \in 1..Len(keys) : i < j => KeyBefore(keys[i], keys[j])

\* C22: the subproblems map is in letter order: its keys, in insertion
\* order, ascend alphabetically, whatever the order of the markers in the
\* content.
C22_SubproblemsInLetterOrder ==
  (fn_pc = "return" /\ ~fn_ret.returned.raised)
    => Ascending(KeysOf(fn_ret.returned.subproblems))


(***************************************************************************)
(* Properties of CallSpec: an image and the figure marker of the page text *)
(***************************************************************************)
\* the offsets of the figure markers of a page text, in the order they are
\* collected: indicator by indicator, and in text order for one indicator
MarkerPositions(content) ==
  LET RECURSIVE PositionsFrom(_)
      PositionsFrom(k) ==
        IF k > Len(image_indicators) THEN <<>>
        ELSE With(FindAll(image_indicators[k], content, 0, {"i"}), LAMBDA matches :
               [j \in 1..Len(matches) |-> matches[j].start] \o PositionsFrom(k + 1))
  IN PositionsFrom(1)

\* the image of the call has a marker of its own in the page text
HasMarker ==
  /\ Returned("_find_image_problem_association")
  /\ Len(fn_arg.problem_boundaries) > 0
  /\ fn_arg.img_idx < Len(MarkerPositions(PageContent(fn_arg.page_results)))

\* the offset of the marker of the image of the call
MarkerOfImage == MarkerPositions(PageContent(fn_arg.page_results))[fn_arg.img_idx + 1]

\* the boundaries of the call positioned before the marker of its image
BoundariesBeforeMarker ==
  {b \in 1..Len(fn_arg.problem_boundaries) : fn_arg.problem_boundaries[b].position < MarkerOfImage}

\* C23: when the page text has figure markers and the image has one, the
\* image is associated with the problem of the last boundary positioned
\* before that marker, the last boundary of the page when the marker follows
\* them all; an image whose marker precedes the first boundary is associated
\* with no problem.
C23_ImageGoesToLastBoundaryBeforeMarker ==
  HasMarker =>
    IF BoundariesBeforeMarker = {} THEN fn_ret = None
    ELSE \E b \in BoundariesBeforeMarker :
           /\ \A other \in BoundariesBeforeMarker : other <= b
           /\ fn_ret = Some(fn_arg.problem_boundaries[b].problem_num)

\* the first image of a page is associated with the second of two problems,
\* its marker standing after the two boundaries
C23_Witness ==
  /\ HasMarker
  /\ fn_arg.img_idx = 0
  /\ Len(fn_arg.problem_boundaries) = 2
  /\ BoundariesBeforeMarker = {1, 2}
  /\ fn_ret = Some(fn_arg.problem_boundaries[2].problem_num)
  /\ fn_ret # Some(fn_arg.problem_boundaries[1].problem_num)

\* the marker of the image stands between the two boundaries of the page
C23_WitnessBetween ==
  /\ HasMarker
  /\ Len(fn_arg.problem_boundaries) = 2
  /\ BoundariesBeforeMarker = {1}
  /\ fn_ret = Some(fn_arg.problem_boundaries[1].problem_num)

\* the marker of the image stands before the first boundary
C23_WitnessBeforeFirst ==
  /\ HasMarker
  /\ BoundariesBeforeMarker = {}
  /\ fn_ret = None


(***************************************************************************)
(* Properties of Spec: a problem number found on several pages             *)
(***************************************************************************)
\* the parts of a group page by page, from the first page of the document to
\* the last, the parts of one page in the order the group has them
InPageOrder(parts) ==
  LET RECURSIVE FromPage(_)
      FromPage(page) ==
        IF page > Len(doc) THEN <<>>
        ELSE SelectSeq(parts, LAMBDA part : part.page = page) \o FromPage(page + 1)
  IN FromPage(1)

\* the contents of the parts one after the other, a newline between two
JoinedContent(parts) ==
  LET RECURSIVE JoinFrom(_)
      JoinFrom(k) ==
        IF k > Len(parts) THEN ""
        ELSE (IF k > 1 THEN "\n" ELSE "") \o parts[k].content \o JoinFrom(k + 1)
  IN JoinFrom(1)

\* the texts of an emitted problem: statement, solution and subproblems
TextsOf(problem) ==
  [problem_text |-> problem.problem_text,
   solution |-> IF problem.solution = None THEN None ELSE Some(problem.solution[1].text),
   subproblems |-> [j \in 1..Len(problem.subproblems) |->
                      [key |-> problem.subproblems[j].key,
                       problem_text |-> problem.subproblems[j].problem_text,
                       solution |-> IF problem.subproblems[j].solution = None THEN None
                                    ELSE Some(problem.subproblems[j].solution[1].text)]]]

\* the texts of the problem assembled from one content
TextsFrom(number, content) ==
  TextsOf(CombineProblem(number, <<[number |-> number, page |-> 1, content |-> content]>>, <<>>).problem)

\* C24: for every problem number of the document, its parts on several pages
\* and the orphan continuations attached to it included, exactly one problem
\* is emitted, and it is assembled from the contents of all the parts put one
\* after the other in ascending page order.
C24_PartsJoinedInPageOrder ==
  pc = "done" =>
    \A g \in 1..Len(problems_by_number) :
      /\ Cardinality(EmittedWithNumber(problems_by_number[g].number)) = 1
      /\ Len(problems_by_number[g].parts) > 1 =>
           \A i \in EmittedWithNumber(problems_by_number[g].number) :
             TextsOf(combined_problems[i])
               = TextsFrom(problems_by_number[g].number,
                           JoinedContent(InPageOrder(problems_by_number[g].parts)))

\* a problem parsed on pages 1 and 3 with the orphan text of page 2 attached
\* after them: one problem is emitted, with a statement longer than the part
\* of page 1
C24_Witness ==
  /\ pc = "done"
  /\ \E g \in 1..Len(problems_by_number) :
       /\ Len(problems_by_number[g].parts) = 3
       /\ problems_by_number[g].parts[1].page = 1
       /\ problems_by_number[g].parts[2].page = 3
       /\ problems_by_number[g].parts[3].page = 2
       /\ IsContinuation(problems_by_number[g].parts[3])
       /\ \E i \in EmittedWithNumber(problems_by_number[g].number) :
            Len(combined_problems[i].problem_text) > Len(problems_by_number[g].parts[1].content)

\* a problem number parsed on two pages: one problem is emitted
C24_WitnessTwoPages ==
  /\ pc = "done"
  /\ \E g \in 1..Len(problems_by_number) :
       /\ Len(problems_by_number[g].parts) >= 2
       /\ \A k \in 1..Len(problems_by_number[g].parts) : ~IsContinuation(problems_by_number[g].parts[k])
       /\ problems_by_number[g].parts[1].page # problems_by_number[g].parts[2].page
       /\ Cardinality(EmittedWithNumber(problems_by_number[g].number)) = 1


(***************************************************************************)
(* Properties of Spec: exceptions of the assembly                          *)
(***************************************************************************)
\* C25: the assembly raises on no list of accepted subproblem markers: once
\* the pages are read, the run ends with the document JSON written, never
\* with an exception, whatever keys the markers of a problem have.
C25_AssemblyNeverRaises ==
  /\ pc # "raised"
  /\ (pc = "pages" /\ page_num > Len(doc)) =>
       \A k \in 1..Len(all_problems) : ~_extract_subproblems(all_problems[k].content).raised


(***************************************************************************)
(* Properties of AgainSpec: orphan text and the document it comes from     *)
(***************************************************************************)
\* the part is the orphan text of a page of the document being converted
FromPageOfDocument(part) ==
  /\ part.page \in 1..Len(doc)
  /\ _process_single_page(doc[part.page]) # None
  /\ _extract_from_page_results(doc[part.page], part.page).orphaned_content = part.content

\* C26: orphan content is per run: every orphan part attached to a problem of
\* the document being converted comes from a page of that document, also when
\* the converter has converted another document before.
C26_OrphanPartsComeFromTheDocument ==
  pc \in {"done", "raised"} =>
    \A g \in 1..Len(problems_by_number) :
      \A j \in 1..Len(problems_by_number[g].parts) :
        IsContinuation(problems_by_number[g].parts[j])
          => FromPageOfDocument(problems_by_number[g].parts[j])

\* what holds of the first document a converter converts
C26_FirstRunOrphansComeFromTheDocument ==
  fn_pc = "rest" => C26_OrphanPartsComeFromTheDocument


(***************************************************************************)
(* Properties of Spec: the pages submitted to the OCR service              *)
(***************************************************************************)
\* how many times a page was submitted
TimesSubmitted(page) == Cardinality({i \in 1..Len(ocr_calls) : ocr_calls[i] = page})

\* the calls are the pages 1..k of the search for the first content page, k
\* three at most, then pages of the loop, each once and in ascending order
\* from start_page on
SearchThenLoop(k) ==
  /\ k <= Len(ocr_calls)
  /\ \A i \in 1..k : ocr_calls[i] = i
  /\ \A i \in (k + 1)..Len(ocr_calls) : ocr_calls[i] \in start_page..Len(doc)
  /\ \A i, j \in (k + 1)..Len(ocr_calls) : i < j => ocr_calls[i] < ocr_calls[j]

C28_FilenamesPairwiseDifferent ==
  \A i, j \in 1..Len(all_images) :
    i # j => all_images[i].filename # all_images[j].filename


(***************************************************************************)
(* Properties of Spec: the statement of a problem with subproblems         *)
(***************************************************************************)
\* the content an emitted problem was assembled from
ContentOf(problem) == JoinedContent(InPageOrder(GroupOf(NumberOf(problem)).parts))

\* the statement emitted for a content cut at offset pos
StatementCutAt(content, pos) ==
  _clean_text(_extract_solution(
    _remove_multiple_choice_options(Strip(Slice(content, 0, pos)))).problem_text)

\* C29: a problem emitted with a subproblem has a statement with no text
\* located at or after the earliest accepted subproblem marker of its
\* content: the statement is that of the content cut at the marker or before
\* it, whatever stands before the marker (white space, one of . ! ? : or
\* nothing).
C29_StatementEndsBeforeFirstMarker ==
  pc = "done" =>
    \A i \in 1..Len(combined_problems) :
      Len(combined_problems[i].subproblems) > 0 =>
        \E pos \in 0..SubproblemMarkers(ContentOf(combined_problems[i]))[1].start :
          combined_problems[i].problem_text = StatementCutAt(ContentOf(combined_problems[i]), pos)

\* what holds when white space stands before the earliest accepted marker
C29_StatementEndsBeforeMarkerAfterBlank ==
  pc = "done" =>
    \A i \in 1..Len(combined_problems) :
      (/\ Len(combined_problems[i].subproblems) > 0
       /\ Ch(ContentOf(combined_problems[i]),
             SubproblemMarkers(ContentOf(combined_problems[i]))[1].start - 1) \in Whitespace) =>
        \E pos \in 0..SubproblemMarkers(ContentOf(combined_problems[i]))[1].start :
          combined_problems[i].problem_text = StatementCutAt(ContentOf(combined_problems[i]), pos)


(***************************************************************************)
(* Properties of ParseSpec: the set selected and the other sets            *)
(***************************************************************************)
\* what the loop over the patterns selected: best_problems, best_pattern_idx
Selected == fn_ret.best[Len(fn_ret.best)]

\* C30: the set selected by the loop is a maximum under the preferences: no
\* other validated candidate set of the page wins against it by the stated
\* preferences, whether it was seen before or after the selected set.
C30_NoSurvivingSetWinsAgainstSelected ==
  fn_pc = "return" =>
    \A i \in 1..Len(fn_ret.patterns) :
      (Validated(i) /\ i - 1 # Selected.pattern_idx) =>
        ~Wins(fn_ret.patterns[i].current_problems, Selected.problems,
              fn_arg.page, i - 1, Selected.pattern_idx)

\* what holds of the sets seen after the selected set
C30_NoLaterSetWinsAgainstSelected ==
  fn_pc = "return" =>
    \A i \in 1..Len(fn_ret.patterns) :
      (Validated(i) /\ i - 1 > Selected.pattern_idx) =>
        ~Wins(fn_ret.patterns[i].current_problems, Selected.problems,
              fn_arg.page, i - 1, Selected.pattern_idx)

====
